---------------------------- MODULE Spec2Model ----------------------------
(***************************************************************************)
(* A model of Dealdrip's price-extraction engine (src/app.py):             *)
(* PriceScraper.extract_price with its retry loop, page classifier and     *)
(* strategy chain, the shared requests.Session of the module-level         *)
(* PriceScraper, and the check_prices job with the price_alerts table.     *)
(*                                                                         *)
(* Text is a sequence of one-character strings.  A price (a Python float   *)
(* parsed from decimal text) is the exact decimal [n |-> n, k |-> k],      *)
(* meaning n / 10^k, kept normalised (no trailing zero in the fraction),   *)
(* so that equal prices are equal records.  Python's None is the record    *)
(* None.                                                                   *)
(***************************************************************************)
EXTENDS Integers, Sequences, FiniteSets, TLC

(***************************************************************************)
(* Decimal prices                                                          *)
(***************************************************************************)
None == [none |-> TRUE]

RECURSIVE Pow10(_)
Pow10(k) == IF k = 0 THEN 1 ELSE 10 * Pow10(k - 1)

RECURSIVE Norm(_, _)
Norm(n, k) == IF k > 0 /\ n % 10 = 0 THEN Norm(n \div 10, k - 1)
              ELSE [n |-> n, k |-> k]

Dec(n, k) == Norm(n, k)

Price(i) == [n |-> i, k |-> 0]

\* a <= b for two prices
DecLE(a, b) == a.n * Pow10(b.k) <= b.n * Pow10(a.k)

\* m <= p and p <= m for a price p and an integer m (no overflow for large m)
IntLEDec(m, p) == p.n \div Pow10(p.k) >= m
DecLEInt(p, m) == (p.n + Pow10(p.k) - 1) \div Pow10(p.k) <= m

\* 0.01 <= p
AtLeastCent(p) == IF p.k <= 2 THEN p.n >= 1 ELSE p.n >= Pow10(p.k - 2)

(***************************************************************************)
(* PriceScraper._parse_price                                               *)
(***************************************************************************)
Digits == {"0", "1", "2", "3", "4", "5", "6", "7", "8", "9"}

DigitVal(c) == CASE c = "0" -> 0 [] c = "1" -> 1 [] c = "2" -> 2 [] c = "3" -> 3
                 [] c = "4" -> 4 [] c = "5" -> 5 [] c = "6" -> 6 [] c = "7" -> 7
                 [] c = "8" -> 8 [] c = "9" -> 9

HasChar(s, c) == \E i \in 1..Len(s) : s[i] = c

CountChar(s, c) == Cardinality({i \in 1..Len(s) : s[i] = c})

\* str.rfind: the last index of c (1-based), 0 when absent
RFind(s, c) == IF HasChar(s, c)
               THEN CHOOSE i \in 1..Len(s) :
                      s[i] = c /\ \A j \in (i+1)..Len(s) : s[j] # c
               ELSE 0

IsKept(c) == c \in Digits \cup {".", ","}

\* re.sub(r'[^\d.,]', '', price_text)
CleanText(s) == SelectSeq(s, IsKept)

RemoveChar(s, c) == LET Keep(x) == x # c IN SelectSeq(s, Keep)

ReplaceChar(s, c, d) == [i \in 1..Len(s) |-> IF s[i] = c THEN d ELSE s[i]]

RECURSIVE DigitsToNat(_)
DigitsToNat(s) == IF Len(s) = 0 THEN 0
                  ELSE 10 * DigitsToNat(SubSeq(s, 1, Len(s) - 1)) + DigitVal(s[Len(s)])

\* float(text) for text over digits, '.' and ',': None stands for ValueError
ToFloat(s) ==
  IF HasChar(s, ",") \/ CountChar(s, ".") > 1 \/ ~(\E i \in 1..Len(s) : s[i] \in Digits)
  THEN None
  ELSE LET dot  == RFind(s, ".")
           frac == IF dot = 0 THEN 0 ELSE Len(s) - dot
       IN  Dec(DigitsToNat(RemoveChar(s, ".")), frac)

\* a variant that takes every comma for a thousands separator
SeparatorsUS(s) == RemoveChar(s, ",")

\* a variant that takes a single comma for the decimal separator, whatever
\* the number of digits after it
SeparatorsDecimalComma(s) ==
  IF HasChar(s, ",") /\ HasChar(s, ".")
  THEN IF RFind(s, ".") > RFind(s, ",")
       THEN RemoveChar(s, ",")
       ELSE ReplaceChar(RemoveChar(s, "."), ",", ".")
  ELSE IF CountChar(s, ",") = 1 THEN ReplaceChar(s, ",", ".")
       ELSE RemoveChar(s, ",")

\* lines 1033-1054: the separators are resolved
Separators(s) ==
  IF HasChar(s, ",") /\ HasChar(s, ".")
  THEN IF RFind(s, ".") > RFind(s, ",")
       THEN RemoveChar(s, ",")
       ELSE ReplaceChar(RemoveChar(s, "."), ",", ".")
  ELSE IF HasChar(s, ",")
       THEN IF CountChar(s, ",") = 1 /\ Len(s) - RFind(s, ",") <= 2
            THEN ReplaceChar(s, ",", ".")
            ELSE RemoveChar(s, ",")
       ELSE s

_parse_price(price_text) ==
  LET cleaned == CleanText(price_text)
  IN  IF Len(cleaned) = 0 THEN None
      ELSE LET price == ToFloat(Separators(cleaned))
           IN  IF price = None THEN None
               ELSE IF AtLeastCent(price) /\ DecLEInt(price, 10000000)
                    THEN price ELSE None


(***************************************************************************)
(* PriceScraper._select_best_price(all_prices) (lines 634-687)             *)
(***************************************************************************)
\* the regular expressions of _extract_with_regex, by what they look for
regex_patterns == <<"rupee sign", "Rs", "INR", "$", "USD",
                    "price", "sellingPrice", "currentPrice", "salePrice">>

\* 'price' in pattern or 'Price' in pattern
MentionsPrice(pattern) ==
  pattern \in {"price", "sellingPrice", "currentPrice", "salePrice",
               "finalPrice", "discountedPrice", "listPrice", "price =",
               "currentPrice =", "sellingPrice =", "productPrice =",
               "data-price", "data-selling-price", "data-current-price",
               "was"}

Candidate(price, pattern) == [price |-> price, pattern |-> pattern]

Min(S) == CHOOSE x \in S : \A y \in S : DecLE(x, y)

\* sorted(price_list)
RECURSIVE Sorted(_)
Sorted(S) == IF S = {} THEN <<>> ELSE <<Min(S)>> \o Sorted(S \ {Min(S)})

\* unique_prices[p]: the first item of all_prices with the price p
unique_prices(all_prices, p) ==
  all_prices[CHOOSE i \in 1..Len(all_prices) :
               /\ all_prices[i].price = p
               /\ \A j \in 1..(i - 1) : all_prices[j].price # p]

\* 0.1 * m <= p <= 10 * m.  (In floating point; on the prices of the model
\* 0.1 * m is exact, so the comparison is that of the real numbers.)
Reasonable(p, m) == DecLE(Dec(m.n, m.k + 1), p) /\ DecLE(p, Dec(m.n * 10, m.k))

\* a variant that returns the price of the first candidate
select_first(all_prices) ==
  IF Len(all_prices) = 0 THEN None ELSE all_prices[1].price

\* a variant that returns the lowest price whenever there are several
select_lowest(all_prices) ==
  IF Len(all_prices) = 0 THEN None
  ELSE Min({all_prices[i].price : i \in 1..Len(all_prices)})

_select_best_price(all_prices) ==
  IF Len(all_prices) = 0 THEN None
  ELSE IF Len(all_prices) = 1 THEN all_prices[1].price
  ELSE LET price_list == {all_prices[i].price : i \in 1..Len(all_prices)}
           n == Cardinality(price_list)
       IN  IF n = 2 THEN Min(price_list)
           ELSE IF n = 3 THEN Sorted(price_list)[2]
           ELSE IF n > 3
           THEN LET median_price == Sorted(price_list)[(n \div 2) + 1]
                    reasonable_prices == {p \in price_list : Reasonable(p, median_price)}
                    json_prices ==
                      {p \in reasonable_prices :
                         MentionsPrice(unique_prices(all_prices, p).pattern)}
                IN  IF reasonable_prices # {}
                    THEN IF json_prices # {} THEN Min(json_prices)
                         ELSE Min(reasonable_prices)
                    ELSE Min(price_list)
           ELSE Min(price_list)

(***************************************************************************)
(* URLs.  A host is a sequence of labels, a path a sequence of segments.   *)
(***************************************************************************)
Url(h, p) == [host |-> h, path |-> p]

Urls == { Url(<<"www", "myntra", "com">>, <<"p", "123">>),
          Url(<<"shop", "example", "com">>, <<"buy", "9">>),
          Url(<<"m", "example", "org">>, <<"item", "7">>) }

\* PriceScraper._get_domain: netloc without one leading www., m. or mobile.
_get_domain(u) == IF Len(u.host) > 0 /\ u.host[1] \in {"www", "m", "mobile"}
                  THEN Tail(u.host) ELSE u.host

\* labels of which another label is a proper ending or a proper beginning
EndsWith(label, k) == label = k \/ <<label, k>> \in {<<"myamazon", "amazon">>}
StartsWith(label, k) == label = k \/ <<label, k>> \in {<<"international", "in">>}

\* Python's `key in domain` on the dotted names: the characters of the key
\* occur in a row, so its first label may end a label of the domain and
\* its last label may begin one
ContainsSeq(s, key) ==
  \E i \in 0..(Len(s) - Len(key)) :
    \A j \in 1..Len(key) :
      IF j = 1 /\ j = Len(key)
      THEN EndsWith(s[i + j], key[j]) \/ StartsWith(s[i + j], key[j])
      ELSE IF j = 1 THEN EndsWith(s[i + j], key[j])
      ELSE IF j = Len(key) THEN StartsWith(s[i + j], key[j])
      ELSE s[i + j] = key[j]

(***************************************************************************)
(* Pages.  A page is described by what the classifier and the structured-  *)
(* data strategy read of it: the block/error phrases its lower-cased title *)
(* and body contain, its length in characters, the e-commerce indicator    *)
(* tokens its body contains, and its JSON-LD script blocks in document     *)
(* order.                                                                  *)
(***************************************************************************)
Missing == [missing |-> TRUE]
NonScalar == [nonscalar |-> TRUE]

price_paths == << "offers.price", "offers.lowPrice", "offers.highPrice",
                  "price", "priceRange" >>

NoFields == [p \in {price_paths[i] : i \in 1..Len(price_paths)} |-> Missing]

\* script blocks: json.loads succeeds ("ok"), raises ("error"), or the script
\* has no string ("nostring")
LdObj(fields) == [loads |-> "ok", val |-> fields]
LdBad == [loads |-> "error", val |-> NoFields]
LdEmpty == [loads |-> "nostring", val |-> NoFields]

T999 == <<"9", "9", "9", ".", "0", "0">>
T499 == <<"4", "9", "9", ".", "0", "0">>
T5 == <<"5">>

\* a scalar JSON value, by its text str(current)
Scalar(text) == [text |-> text]

Ld999 == LdObj([NoFields EXCEPT !["offers.price"] = Scalar(T999)])
Ld499 == LdObj([NoFields EXCEPT !["offers.price"] = Scalar(T499)])
LdLow == LdObj([NoFields EXCEPT !["price"] = Scalar(T5), !["offers.price"] = NonScalar])

error_indicators ==
  { "site maintenance", "maintenance mode", "under maintenance",
    "temporarily unavailable", "service unavailable",
    "access denied", "forbidden", "blocked",
    "error 403", "error 404", "error 500",
    "something went wrong", "oops", "sorry",
    "please try again", "administrator",
    "captcha", "verify you are human",
    "bot detected", "automated traffic" }

ecommerce_indicators ==
  { "add to cart", "buy now", "price", "product",
    "rupee sign", "rs.", "inr", "$", "discount", "offer" }

Page(t, l, e, c, ld) == [title |-> t, len |-> l, errs |-> e, ecom |-> c, ld |-> ld]

Shop == {"add to cart", "price", "offer"}

ProductPage   == Page({}, 5000, {}, Shop, <<Ld999>>)
PlainPage     == Page({}, 5000, {}, Shop, <<>>)
TwoLdPage     == Page({}, 5000, {}, Shop, <<Ld499, Ld999>>)
BadLdPage     == Page({}, 5000, {"oops"}, Shop, <<LdBad, LdEmpty, Ld999>>)
LowLdPage     == Page({}, 1500, {}, Shop, <<LdLow>>)
SorryPage     == Page({"sorry"}, 5000, {"sorry"}, Shop, <<Ld999>>)
ShortPage     == Page({}, 600, {"blocked"}, {"price", "offer"}, <<Ld999>>)
SparsePage    == Page({}, 1500, {}, {"price"}, <<>>)
MaintenancePage == Page({"site maintenance"}, 600, {"site maintenance"}, {}, <<>>)

Pages == { ProductPage, PlainPage, TwoLdPage, BadLdPage, LowLdPage,
           SorryPage, ShortPage, SparsePage, MaintenancePage }

(***************************************************************************)
(* PriceScraper._is_blocked_or_error_page(html_content, page_title)        *)
(***************************************************************************)
\* A text is held as the set of the phrases that occur in it, as written.
\* str.lower on the phrases the pages of the model write with capitals
Capitalised ==
  [w \in {"Site Maintenance", "OOPS", "Add to Cart", "Price"} |->
     CASE w = "Site Maintenance" -> "site maintenance"
       [] w = "OOPS" -> "oops"
       [] w = "Add to Cart" -> "add to cart"
       [] w = "Price" -> "price"]

lower(text) == {IF w \in DOMAIN Capitalised THEN Capitalised[w] ELSE w : w \in text}

\* a variant that matches the phrases against the text as written
is_blocked_case_sensitive(page, title) ==
  \/ \E indicator \in error_indicators : indicator \in title
  \/ page.len < 1000 /\ \E indicator \in error_indicators : indicator \in page.errs
  \/ page.len < 2000 /\ Cardinality(ecommerce_indicators \cap page.ecom) < 2

_is_blocked_or_error_page(page, title) ==
  LET content_lower == lower(page.errs \cup page.ecom)
      title_lower == lower(title)
  IN  \/ \E indicator \in error_indicators : indicator \in title_lower
      \/ page.len < 1000 /\ \E indicator \in error_indicators : indicator \in content_lower
      \/ /\ page.len < 2000
         /\ Cardinality({indicator \in ecommerce_indicators :
                           indicator \in content_lower}) < 2

(***************************************************************************)
(* PriceScraper._extract_from_structured_data                              *)
(***************************************************************************)
\* lines 715-727: the first path whose value is a scalar that parses to a price
RECURSIVE PriceAtPaths(_, _)
PriceAtPaths(val, i) ==
  IF i > Len(price_paths) THEN None
  ELSE LET current == val[price_paths[i]]
       IN  IF current \in {Missing, NonScalar} THEN PriceAtPaths(val, i + 1)
           ELSE LET price == _parse_price(current.text)
                IN  IF price # None THEN price ELSE PriceAtPaths(val, i + 1)

RECURSIVE StructuredFrom(_, _)
StructuredFrom(scripts, i) ==
  IF i > Len(scripts) THEN None
  ELSE IF scripts[i].loads # "ok" THEN StructuredFrom(scripts, i + 1)
       ELSE LET price == PriceAtPaths(scripts[i].val, 1)
            IN  IF price # None THEN price ELSE StructuredFrom(scripts, i + 1)

\* a variant that gives up at the first script block that yields no price
\* (`return None` in place of `continue`)
structured_data_first_script(page) ==
  IF Len(page.ld) = 0 \/ page.ld[1].loads # "ok" THEN None
  ELSE PriceAtPaths(page.ld[1].val, 1)

_extract_from_structured_data(page) == StructuredFrom(page.ld, 1)

\* the value of the structured-data strategy on each page
StructuredPrice == [page \in Pages |-> _extract_from_structured_data(page)]

(***************************************************************************)
(* State                                                                   *)
(***************************************************************************)
VARIABLES
  pc,             \* position of the extract_price call ("idle": none running)
  caller,         \* who called extract_price: "test" (/api/test-price) or "check"
  url,            \* the url argument
  attempt,        \* the loop variable of the retry loop
  timeout,        \* the local timeout
  response,       \* the local response: [status, page], or Unbound
  sessionHeaders, \* price_scraper.session.headers, shared by every call
  lastReq,        \* the latest HTTP request of the call, and what it met
  nreq,           \* requests the retry loop of this call sent to url
  n403,           \* attempts of this call whose first request was answered 403
  slept,          \* the sleeps of this call since its latest request
  ownHeaders,     \* in the retry loop: the session headers as this call found
                  \* them on entry or last set them
  nalt,           \* requests this call sent to alternate surfaces
  classified,     \* whether the classifier ran on the fetched page in this call
  invoked,        \* names of the strategies invoked so far in this call
  lastValue,      \* what the strategy invoked last gave
  fallbacks,      \* _try_api_fallback: the alternate urls still to try
  failures,       \* names of the strategies that raised in this call
  outcome,        \* "running", "returned" or "raised"
  result,         \* the returned value (None: no price found)
  calls,          \* extract_price calls started so far
  cp,             \* position of check_prices ("idle": not running)
  table,          \* the price_alerts table: a sequence of rows
  alerts,         \* check_prices: the local list alerts (row numbers)
  idx,            \* check_prices: the position of the for loop in alerts
  seen,           \* this run: per row, what its extraction ended with
  notified,       \* the rows for which a notification was attempted, in order
  arg,            \* a helper called on its own: its arguments
  ret             \* a helper called on its own: what it returned

callVars  == <<caller, url>>
loopVars  == <<attempt, timeout, response, lastReq, nreq, n403, slept, ownHeaders>>
chainVars == <<classified, invoked, lastValue, fallbacks, nalt, failures>>
endVars   == <<outcome, result>>
jobVars   == <<cp, table, alerts, idx, seen, notified>>
unitVars  == <<arg, ret>>
vars == <<pc, callVars, loopVars, sessionHeaders, chainVars, endVars, calls,
          jobVars, unitVars>>

(***************************************************************************)
(* Program constants and bounds                                            *)
(***************************************************************************)
max_retries == 3
timeout_values == <<20, 25, 30>>
FallbackTimeout == 15
BandLow == 10
BandHigh == 100000

\* len(self.header_sets)
NumHeaderSets == 2

\* random.choice(self.user_agents) draws among the first MaxUserAgent entries
MaxUserAgent == 2

\* extract_price calls made through /api/test-price in one behaviour
MaxCalls == 2

Unbound == [unbound |-> TRUE]
Exc == [exc |-> TRUE]

\* __init__: the session starts with the baseline headers and no Referer
BaselineUA == [name |-> "baseline"]
BasicUA == [name |-> "basic"]
MobileUA == [name |-> "iphone"]
PoolUA(i) == [pool |-> i]
BaselineSet == [name |-> "baseline"]
PoolSet(i) == [pool |-> i]
BaselineHeaders == [ua |-> BaselineUA, set |-> BaselineSet, referer |-> <<>>]

\* a transport failure of a request
Failed(e) == [error |-> e]
IsAnswer(met) == "status" \in DOMAIN met

\* what a server can answer, and the two transport failures of requests
StatusCodes == {200, 204, 304, 403, 404, 429, 500, 502, 503, 504}
TransportErrors == {"Timeout", "ConnectionError"}

\* the body a response carries: any page with a 200, an error page otherwise
BodiesOf(status) == IF status = 200 THEN Pages ELSE {MaintenancePage}

Responses(codes) ==
  UNION {{[status |-> c, page |-> b] : b \in BodiesOf(c)} : c \in codes}

\* time.sleep calls
Delay == [why |-> "delay", min |-> 1, max |-> 3]
Backoff(secs) == [why |-> "backoff", secs |-> secs]
Pause == [why |-> "pause", secs |-> 2]

InBand(price) ==
  /\ price \notin {None, Exc}
  /\ price.n # 0
  /\ IntLEDec(BandLow, price)
  /\ DecLEInt(price, BandHigh)

NoCall == /\ pc = "idle"
          /\ caller = "none"
          /\ url = Url(<<>>, <<>>)
          /\ attempt = 0
          /\ timeout = 0
          /\ response = Unbound
          /\ lastReq = [kind |-> "none"]
          /\ nreq = 0
          /\ n403 = 0
          /\ slept = <<>>
          /\ ownHeaders = BaselineHeaders
          /\ nalt = 0
          /\ classified = FALSE
          /\ invoked = <<>>
          /\ lastValue = None
          /\ fallbacks = <<>>
          /\ failures = {}
          /\ outcome = "returned"
          /\ result = None

Init ==
  /\ NoCall
  /\ sessionHeaders = BaselineHeaders
  /\ calls = 0
  /\ cp = "idle"
  /\ table = <<>>
  /\ alerts = <<>>
  /\ idx = 0
  /\ seen = <<>>
  /\ notified = <<>>
  /\ arg = Unbound
  /\ ret = Unbound

(***************************************************************************)
(* extract_price: the retry loop (lines 261-326)                           *)
(***************************************************************************)
\* extract_price(u) is entered by `who`
Enter(u, who) ==
  /\ pc' = "loop"
  /\ caller' = who
  /\ url' = u
  /\ attempt' = 0
  /\ timeout' = 0
  /\ response' = Unbound
  /\ lastReq' = [kind |-> "none"]
  /\ nreq' = 0
  /\ n403' = 0
  /\ slept' = <<>>
  /\ ownHeaders' = sessionHeaders
  /\ nalt' = 0
  /\ classified' = FALSE
  /\ invoked' = <<>>
  /\ lastValue' = None
  /\ fallbacks' = <<>>
  /\ failures' = {}
  /\ outcome' = "running"
  /\ result' = None
  /\ calls' = calls + 1
  /\ UNCHANGED sessionHeaders

\* the call is over: its locals are gone
Leave ==
  /\ pc' = "idle"
  /\ caller' = "none"
  /\ url' = Url(<<>>, <<>>)
  /\ attempt' = 0
  /\ timeout' = 0
  /\ response' = Unbound
  /\ lastReq' = [kind |-> "none"]
  /\ nreq' = 0
  /\ n403' = 0
  /\ slept' = <<>>
  /\ ownHeaders' = BaselineHeaders
  /\ nalt' = 0
  /\ classified' = FALSE
  /\ invoked' = <<>>
  /\ lastValue' = None
  /\ fallbacks' = <<>>
  /\ failures' = {}
  /\ outcome' = "returned"
  /\ result' = None

\* lines 271-286: the random delay and the identity rotation of a retry
Rotate ==
  /\ pc = "loop"
  /\ IF attempt > 0
     THEN /\ \E random_ua \in 1..MaxUserAgent, random_headers \in 1..NumHeaderSets :
               sessionHeaders' = [ua |-> PoolUA(random_ua),
                                  set |-> PoolSet(random_headers),
                                  referer |-> _get_domain(url)]
          /\ ownHeaders' = sessionHeaders'
          /\ slept' = Append(slept, Delay)
     ELSE UNCHANGED <<sessionHeaders, ownHeaders, slept>>
  /\ pc' = "get"
  /\ UNCHANGED <<callVars, attempt, timeout, response, lastReq, nreq, n403,
                 chainVars, endVars, calls, jobVars, unitVars>>

\* a variant that never escalates the timeout
TimeoutForFirst(i) == timeout_values[1]

\* line 289
TimeoutFor(i) == IF i < Len(timeout_values) THEN timeout_values[i + 1] ELSE 30

\* a variant of the loop with one iteration more (range(max_retries + 1))
NextIterationOneMore ==
  IF attempt + 1 <= max_retries
  THEN pc' = "loop" /\ attempt' = attempt + 1
  ELSE pc' = "after_loop" /\ attempt' = attempt

\* `continue`, or the end of the loop body: the next iteration, or the loop ends
NextIteration ==
  IF attempt + 1 < max_retries
  THEN pc' = "loop" /\ attempt' = attempt + 1
  ELSE pc' = "after_loop" /\ attempt' = attempt

\* a variant of the except clauses that re-raises on every attempt
ExceptReraises(e) ==
  /\ pc' = "done" /\ outcome' = "raised" /\ result' = None
  /\ attempt' = attempt
  /\ slept' = <<>>

\* lines 315-326: the two except clauses, for the exception e
Except(e) ==
  IF attempt = max_retries - 1
  THEN /\ pc' = "done" /\ outcome' = "raised" /\ result' = None
       /\ attempt' = attempt
       /\ slept' = <<>>
  ELSE /\ pc' = "loop" /\ attempt' = attempt + 1
       /\ slept' = IF e = "Timeout" THEN <<>> ELSE <<Pause>>
       /\ UNCHANGED endVars

\* a request of the retry loop
Request(kind, hdrs, t, met) ==
  [kind |-> kind, headers |-> hdrs, timeout |-> t, attempt |-> attempt, met |-> met]

\* line 290: the request is sent with the session's headers
Sent(met) ==
  /\ timeout' = TimeoutFor(attempt)
  /\ lastReq' = Request("session", sessionHeaders, timeout', met)
  /\ nreq' = nreq + 1

\* line 290 answered 200: break
Get200 ==
  /\ pc = "get"
  /\ \E r \in Responses({200}) : response' = r /\ Sent(r)
  /\ pc' = "after_loop"
  /\ slept' = <<>>
  /\ UNCHANGED <<callVars, attempt, n403, ownHeaders, sessionHeaders, chainVars,
                 endVars, calls, jobVars, unitVars>>

\* line 290 answered 403: a second request follows at once
Get403 ==
  /\ pc = "get"
  /\ \E r \in Responses({403}) : response' = r /\ Sent(r)
  /\ n403' = n403 + 1
  /\ pc' = "get403"
  /\ slept' = <<>>
  /\ UNCHANGED <<callVars, attempt, ownHeaders, sessionHeaders, chainVars,
                 endVars, calls, jobVars, unitVars>>

\* a variant that waits 2 seconds after every transient answer
GetTransientFixedWait ==
  /\ pc = "get"
  /\ \E r \in Responses({429, 502, 503, 504}) : response' = r /\ Sent(r)
  /\ slept' = <<Backoff(2)>>
  /\ NextIteration
  /\ UNCHANGED <<callVars, n403, ownHeaders, sessionHeaders, chainVars, endVars,
                 calls, jobVars, unitVars>>

\* line 290 answered 429, 502, 503 or 504: sleep (attempt + 1) * 2, continue
GetTransient ==
  /\ pc = "get"
  /\ \E r \in Responses({429, 502, 503, 504}) : response' = r /\ Sent(r)
  /\ slept' = <<Backoff((attempt + 1) * 2)>>
  /\ NextIteration
  /\ UNCHANGED <<callVars, n403, ownHeaders, sessionHeaders, chainVars, endVars,
                 calls, jobVars, unitVars>>

\* a variant whose raise_for_status raises on every status other than 200
GetOtherRaises ==
  /\ pc = "get"
  /\ \E r \in Responses(StatusCodes \ {200, 403, 429, 502, 503, 504}) :
       /\ response' = r
       /\ Sent(r)
       /\ Except("HTTPError")
  /\ UNCHANGED <<callVars, n403, ownHeaders, sessionHeaders, chainVars, calls, jobVars,
                 unitVars>>

\* line 290 answered another status: raise_for_status raises from 400 on
GetOther ==
  /\ pc = "get"
  /\ \E r \in Responses(StatusCodes \ {200, 403, 429, 502, 503, 504}) :
       /\ response' = r
       /\ Sent(r)
       /\ IF r.status >= 400
          THEN Except("HTTPError")
          ELSE NextIteration /\ slept' = <<>> /\ UNCHANGED endVars
  /\ UNCHANGED <<callVars, n403, ownHeaders, sessionHeaders, chainVars, calls, jobVars,
                 unitVars>>

\* line 290 raised Timeout or another RequestException
GetFails ==
  /\ pc = "get"
  /\ \E e \in TransportErrors : Sent(Failed(e)) /\ Except(e)
  /\ UNCHANGED <<callVars, response, n403, ownHeaders, sessionHeaders, chainVars,
                 calls, jobVars, unitVars>>

\* line 302: the request with basic_headers (they replace the User-Agent only)
BasicHeaders == [sessionHeaders EXCEPT !.ua = BasicUA]

Retry403Answered ==
  /\ pc = "get403"
  /\ \E r \in Responses(StatusCodes) :
       /\ response' = r
       /\ lastReq' = Request("basic", BasicHeaders, timeout, r)
       /\ IF r.status = 200
          THEN pc' = "after_loop" /\ attempt' = attempt
          ELSE NextIteration
  /\ nreq' = nreq + 1
  /\ slept' = <<>>
  /\ UNCHANGED <<callVars, timeout, n403, ownHeaders, sessionHeaders, chainVars,
                 endVars, calls, jobVars, unitVars>>

Retry403Fails ==
  /\ pc = "get403"
  /\ \E e \in TransportErrors :
       /\ lastReq' = Request("basic", BasicHeaders, timeout, Failed(e))
       /\ Except(e)
  /\ nreq' = nreq + 1
  /\ UNCHANGED <<callVars, timeout, response, n403, ownHeaders, sessionHeaders,
                 chainVars, calls, jobVars, unitVars>>

\* a variant without the status test of line 328
AfterLoopUnchecked ==
  /\ pc = "after_loop"
  /\ pc' = "parse"
  /\ ownHeaders' = Unbound
  /\ UNCHANGED <<callVars, attempt, timeout, response, lastReq, nreq, n403, slept,
                 sessionHeaders, chainVars, endVars, calls, jobVars, unitVars>>

\* lines 328-330
AfterLoop ==
  /\ pc = "after_loop"
  /\ IF response = Unbound
     THEN pc' = "done" /\ outcome' = "raised" /\ result' = None
     ELSE IF response.status # 200
          THEN pc' = "done" /\ outcome' = "returned" /\ result' = None
          ELSE pc' = "parse" /\ UNCHANGED endVars
  /\ ownHeaders' = Unbound
  /\ UNCHANGED <<callVars, attempt, timeout, response, lastReq, nreq, n403, slept,
                 sessionHeaders, chainVars, calls, jobVars, unitVars>>

(***************************************************************************)
(* extract_price: classification and the strategy chain (lines 332-376)    *)
(***************************************************************************)
\* a variant of the list with the first two strategies exchanged
strategies_exchanged == << "Site Specific", "Structured Data", "Main Content",
                           "Context Aware", "Aggressive Regex", "API Fallback" >>

strategies == << "Structured Data", "Site Specific", "Main Content",
                 "Context Aware", "Aggressive Regex", "API Fallback" >>

\* the keys of site_selectors, in the order of the dict
site_keys == << <<"amazon", "com">>, <<"amazon", "in">>, <<"flipkart", "com">>,
                <<"myntra", "com">>, <<"ajio", "com">>, <<"snapdeal", "com">>,
                <<"ebay", "com">>, <<"walmart", "com">>, <<"target", "com">>,
                <<"bestbuy", "com">>, <<"nykaa", "com">> >>

HasSiteSelectors(domain) ==
  \E i \in 1..Len(site_keys) : ContainsSeq(domain, site_keys[i])

\* what each strategy can find on a page, beside nothing
SiteSpecificFinds == {Dec(999, 2), Price(1499), Price(250000)}
MainContentFinds == {Price(10)}
ContextAwareFinds == {Price(799)}
AggressiveFinds == {Price(100000)}
AlternateFinds == {Price(500), Price(5)}

\* lines 332-340 raise (the parser fails on the body): the outer except
ParseFails ==
  /\ pc = "parse"
  /\ pc' = "done" /\ outcome' = "returned" /\ result' = None
  /\ UNCHANGED <<callVars, loopVars, sessionHeaders, chainVars, calls, jobVars, unitVars>>

\* a variant that logs the classifier's verdict and goes on to the strategies
ClassifyAndGoOn ==
  /\ pc = "parse"
  /\ classified' = TRUE
  /\ pc' = "chain"
  /\ UNCHANGED <<callVars, loopVars, sessionHeaders, invoked, lastValue, fallbacks,
                 nalt, failures, endVars, calls, jobVars, unitVars>>

\* lines 338-345: the classifier decides on the text and title of response
Classify ==
  /\ pc = "parse"
  /\ classified' = TRUE
  /\ IF _is_blocked_or_error_page(response.page, response.page.title)
     THEN pc' = "done" /\ outcome' = "returned" /\ result' = None
     ELSE pc' = "chain" /\ UNCHANGED endVars
  /\ UNCHANGED <<callVars, loopVars, sessionHeaders, invoked, lastValue, fallbacks,
                 nalt, failures, calls, jobVars, unitVars>>

NextStrategy == IF Len(invoked) < Len(strategies)
                THEN strategies[Len(invoked) + 1] ELSE "none"

\* a variant of the band test without its bounds (`if price:`)
AcceptsAnyPrice(price) == price \notin {None, Exc} /\ price.n # 0

\* lines 363-366: the band test on what a strategy gave
Accepts(price) == InBand(price)

\* a variant without the except clause of line 367: a strategy's exception
\* leaves the loop and is re-raised by the handler of lines 374-376
VerdictPropagates(price, n) ==
  /\ lastValue' = price
  /\ IF price = Exc
     THEN pc' = "done" /\ outcome' = "raised" /\ result' = None
     ELSE IF Accepts(price)
          THEN pc' = "done" /\ outcome' = "returned" /\ result' = price
          ELSE IF n < Len(strategies)
               THEN pc' = "chain" /\ UNCHANGED endVars
               ELSE pc' = "done" /\ outcome' = "returned" /\ result' = None

\* lines 361-372: one turn of the loop over strategies, for the value `price`
\* (Exc: the strategy raised) that strategy `name` gave
Verdict(price, n) ==
  /\ lastValue' = price
  /\ IF price # Exc /\ Accepts(price)
     THEN pc' = "done" /\ outcome' = "returned" /\ result' = price
     ELSE IF n < Len(strategies)
          THEN pc' = "chain" /\ UNCHANGED endVars
          ELSE pc' = "done" /\ outcome' = "returned" /\ result' = None

Judge(name, price) ==
  /\ invoked' = Append(invoked, name)
  /\ failures' = IF price = Exc THEN failures \cup {name} ELSE failures
  /\ Verdict(price, Len(invoked) + 1)

StructuredData ==
  /\ pc = "chain"
  /\ NextStrategy = "Structured Data"
  /\ Judge("Structured Data", StructuredPrice[response.page])
  /\ UNCHANGED <<callVars, loopVars, sessionHeaders, classified, fallbacks, nalt,
                 calls, jobVars, unitVars>>

SiteSpecific ==
  /\ pc = "chain"
  /\ NextStrategy = "Site Specific"
  /\ \E price \in {None} \cup SiteSpecificFinds :
       /\ price # None => HasSiteSelectors(_get_domain(url))
       /\ Judge("Site Specific", price)
  /\ UNCHANGED <<callVars, loopVars, sessionHeaders, classified, fallbacks, nalt,
                 calls, jobVars, unitVars>>

MainContent ==
  /\ pc = "chain"
  /\ NextStrategy = "Main Content"
  /\ \E price \in {None} \cup MainContentFinds : Judge("Main Content", price)
  /\ UNCHANGED <<callVars, loopVars, sessionHeaders, classified, fallbacks, nalt,
                 calls, jobVars, unitVars>>

ContextAware ==
  /\ pc = "chain"
  /\ NextStrategy = "Context Aware"
  /\ \E price \in {None} \cup ContextAwareFinds : Judge("Context Aware", price)
  /\ UNCHANGED <<callVars, loopVars, sessionHeaders, classified, fallbacks, nalt,
                 calls, jobVars, unitVars>>

\* _extract_aggressive_regex has no handler of its own: it may raise
AggressiveRegex ==
  /\ pc = "chain"
  /\ NextStrategy = "Aggressive Regex"
  /\ \E price \in {None, Exc} \cup AggressiveFinds : Judge("Aggressive Regex", price)
  /\ UNCHANGED <<callVars, loopVars, sessionHeaders, classified, fallbacks, nalt,
                 calls, jobVars, unitVars>>

(***************************************************************************)
(* PriceScraper._try_api_fallback (lines 970-1015)                         *)
(***************************************************************************)
\* str.replace of one run of host labels by another
RECURSIVE ReplaceLabels(_, _, _)
ReplaceLabels(h, old, new) ==
  IF Len(h) < Len(old) THEN h
  ELSE IF SubSeq(h, 1, Len(old)) = old
       THEN new \o ReplaceLabels(SubSeq(h, Len(old) + 1, Len(h)), old, new)
       ELSE <<Head(h)>> \o ReplaceLabels(Tail(h), old, new)

\* '/buy' in original_url or '/p/' in original_url
HasAmpPath(u) ==
  \E i \in 1..Len(u.path) : u.path[i] = "buy" \/ (u.path[i] = "p" /\ i < Len(u.path))

\* original_url.replace('/buy', '/amp').replace('/p/', '/amp/')
AmpUrl(u) ==
  [u EXCEPT !.path = [i \in 1..Len(u.path) |->
     IF u.path[i] = "buy" \/ (u.path[i] = "p" /\ i < Len(u.path))
     THEN "amp" ELSE u.path[i]]]

MobileUrl(u, site) ==
  [u EXCEPT !.host = ReplaceLabels(u.host, <<"www">> \o site, <<"m">> \o site)]

\* a variant that tries the AMP version on the domains of the mobile version only
FallbackUrlsKnown(u, domain) ==
  IF ContainsSeq(domain, <<"myntra", "com">>)
  THEN << MobileUrl(u, <<"myntra", "com">>) >>
       \o (IF HasAmpPath(u) THEN << AmpUrl(u) >> ELSE << >>)
  ELSE IF ContainsSeq(domain, <<"amazon", "in">>)
       THEN << MobileUrl(u, <<"amazon", "in">>) >>
            \o (IF HasAmpPath(u) THEN << AmpUrl(u) >> ELSE << >>)
       ELSE << >>

\* lines 974-987: fallback_strategies
FallbackUrls(u, domain) ==
  (IF ContainsSeq(domain, <<"myntra", "com">>)
   THEN << MobileUrl(u, <<"myntra", "com">>) >>
   ELSE IF ContainsSeq(domain, <<"amazon", "in">>)
        THEN << MobileUrl(u, <<"amazon", "in">>) >>
        ELSE << >>)
  \o (IF HasAmpPath(u) THEN << AmpUrl(u) >> ELSE << >>)

MobileHeaders == [ua |-> MobileUA, set |-> BaselineSet, referer |-> <<>>]

AltRequest(u, met) ==
  [kind |-> "alternate", url |-> u, headers |-> MobileHeaders,
   timeout |-> FallbackTimeout, attempt |-> attempt, met |-> met]

\* line 358: the sixth strategy is entered
ApiFallback ==
  /\ pc = "chain"
  /\ NextStrategy = "API Fallback"
  /\ invoked' = Append(invoked, "API Fallback")
  /\ fallbacks' = FallbackUrls(url, _get_domain(url))
  /\ pc' = "fallback"
  /\ UNCHANGED <<callVars, loopVars, sessionHeaders, classified, lastValue, nalt,
                 failures, endVars, calls, jobVars, unitVars>>

\* lines 990-1008: one alternate url is requested and answers; on a long 200
\* page that is not classified as blocked the aggressive regex is applied
FallbackAnswered ==
  /\ pc = "fallback"
  /\ fallbacks # << >>
  /\ \E r \in Responses(StatusCodes) :
       /\ lastReq' = AltRequest(Head(fallbacks), r)
       /\ \E price \in {None} \cup AlternateFinds :
            /\ price # None =>
                 /\ r.status = 200
                 /\ r.page.len > 1000
                 /\ ~_is_blocked_or_error_page(r.page, {})
            /\ IF price # None
               THEN Verdict(price, Len(invoked)) /\ fallbacks' = << >>
               ELSE /\ fallbacks' = Tail(fallbacks)
                    /\ UNCHANGED <<pc, lastValue, endVars>>
  /\ nalt' = nalt + 1
  /\ UNCHANGED <<callVars, attempt, timeout, response, nreq, n403, slept, ownHeaders,
                 sessionHeaders, classified, invoked, failures, calls, jobVars, unitVars>>

\* line 1000 raises: the except of line 1010, the next alternate url
FallbackFails ==
  /\ pc = "fallback"
  /\ fallbacks # << >>
  /\ \E e \in TransportErrors : lastReq' = AltRequest(Head(fallbacks), Failed(e))
  /\ fallbacks' = Tail(fallbacks)
  /\ nalt' = nalt + 1
  /\ UNCHANGED <<pc, callVars, attempt, timeout, response, nreq, n403, slept,
                 ownHeaders, sessionHeaders, classified, invoked, lastValue, endVars,
                 failures, calls, jobVars, unitVars>>

\* line 1015: no alternate url is left
FallbackNone ==
  /\ pc = "fallback"
  /\ fallbacks = << >>
  /\ Verdict(None, Len(invoked))
  /\ UNCHANGED <<callVars, loopVars, sessionHeaders, classified, invoked, fallbacks,
                 nalt, failures, calls, jobVars, unitVars>>

(***************************************************************************)
(* The callers                                                             *)
(***************************************************************************)
\* test_price_extraction (/api/test-price) calls extract_price on any url
TestPrice ==
  /\ pc = "idle"
  /\ cp = "idle"
  /\ calls < MaxCalls
  /\ \E u \in Urls : Enter(u, "test")
  /\ UNCHANGED <<jobVars, unitVars>>

\* test_price_extraction answers the request: 200 with the price or the
\* "could not extract" message, 500 when extract_price raised
TestPriceAnswers ==
  /\ pc = "done"
  /\ caller = "test"
  /\ Leave
  /\ UNCHANGED <<sessionHeaders, calls, jobVars, unitVars>>

Fetch == Rotate \/ Get200 \/ Get403 \/ GetTransient \/ GetOther \/ GetFails
           \/ Retry403Answered \/ Retry403Fails \/ AfterLoop

Chain == ParseFails \/ Classify \/ StructuredData \/ SiteSpecific \/ MainContent
           \/ ContextAware \/ AggressiveRegex \/ ApiFallback \/ FallbackAnswered
           \/ FallbackFails \/ FallbackNone

Next == TestPrice \/ TestPriceAnswers \/ Fetch \/ Chain

Spec == Init /\ [][Next]_vars

(***************************************************************************)
(* Properties of extract_price                                             *)
(***************************************************************************)
Returned == pc = "done" /\ outcome = "returned"
Raised == pc = "done" /\ outcome = "raised"
Found == Returned /\ result # None

\* the classifier's verdict on the fetched page
Blocked == _is_blocked_or_error_page(response.page, response.page.title)

\* C1: on a fetched non-blocked page the strategies are invoked in the order
\* Structured Data, Site Specific, Main Content, Context Aware, Aggressive
\* Regex, API Fallback; the chain goes on only past values outside [10, 100000],
\* the result is the value of the strategy invoked last (the first in-band one),
\* an alternate surface is requested only after all five earlier strategies
\* gave no in-band value, and an in-band structured-data value is the result.
C1_PriorityOrder ==
  LET order == << "Structured Data", "Site Specific", "Main Content",
                  "Context Aware", "Aggressive Regex", "API Fallback" >>
      first == _extract_from_structured_data(response.page)
  IN  /\ \E n \in 0..6 : invoked = SubSeq(order, 1, n)
      /\ (pc \in {"chain", "fallback"} /\ invoked # <<>>) =>
           ~(lastValue # Exc /\ lastValue # None /\ lastValue.n # 0
             /\ IntLEDec(10, lastValue) /\ DecLEInt(lastValue, 100000))
      /\ (Found /\ invoked # <<>>) => result = lastValue
      /\ (Returned /\ invoked # <<>> /\ result = None) => Len(invoked) = 6
      /\ nalt > 0 => Len(invoked) = 6
      /\ (invoked # <<>> /\ first # None
            /\ IntLEDec(10, first) /\ DecLEInt(first, 100000)) =>
           /\ invoked = << "Structured Data" >>
           /\ Returned
           /\ result = first

\* the chain stopped at the fourth strategy, whose value is the result
C1_Witness ==
  /\ Found
  /\ Len(invoked) = 4
  /\ result = Price(799)

\* C2 as stated: whenever the fetched 200 document carries a JSON-LD block with
\* offers.price = "999.00", extract_price returns 999.00
HasOffer999(page) ==
  \E i \in 1..Len(page.ld) :
    page.ld[i].loads = "ok" /\ page.ld[i].val["offers.price"] = Scalar(T999)

FirstPricedBlockIs999(page) ==
  \E i \in 1..Len(page.ld) :
    /\ page.ld[i].loads = "ok"
    /\ page.ld[i].val["offers.price"] = Scalar(T999)
    /\ \A j \in 1..(i - 1) :
         page.ld[j].loads # "ok" \/ PriceAtPaths(page.ld[j].val, 1) = None

C3_FoundInBand ==
  Found =>
    /\ result # Exc
    /\ result.n # 0
    /\ IntLEDec(10, result)
    /\ DecLEInt(result, 100000)
    /\ invoked # <<>>
    /\ result = lastValue
    /\ response.status = 200
    /\ classified
    /\ ~Blocked

\* the upper end of the band is returned
C3_Witness ==
  /\ Found
  /\ result = Price(100000)
  /\ invoked[Len(invoked)] = "Aggressive Regex"

\* C4 as stated: extract_price never raises
C4_NeverRaises == pc = "done" => outcome = "returned"

\* C4: extract_price raises exactly when the request sent last in the final
\* attempt (index 2) fails with a timeout or a connection error, or the
\* session request of the final attempt is answered with a status from 400 on
\* other than 403, 429, 502, 503, 504; every other path returns None or a price.
C4_RaisesOnlyOnFinalAttempt ==
  pc = "done" =>
    (outcome = "raised" <=>
       /\ attempt = 2
       /\ lastReq.kind \in {"session", "basic"}
       /\ lastReq.attempt = 2
       /\ \/ ~IsAnswer(lastReq.met)
          \/ /\ lastReq.kind = "session"
             /\ lastReq.met.status >= 400
             /\ lastReq.met.status \notin {403, 429, 502, 503, 504})

\* the third attempt timed out and the call raised
C4_Witness ==
  /\ Raised
  /\ lastReq.met = Failed("Timeout")
  /\ nreq = 3

\* C5: the classifier and the strategies run only on a response with status
\* 200, which is the response to the last request of the retry loop; when the
\* loop ends without a 200 response neither runs.
C5_OnlyOn200 ==
  /\ (classified \/ invoked # <<>> \/ pc \in {"parse", "chain", "fallback"}) =>
       /\ IsAnswer(response)
       /\ response.status = 200
       /\ nalt = 0 => lastReq.met = response
       /\ lastReq.kind = "alternate" => nalt > 0
  /\ (pc = "done" /\ nreq > 0 /\ nalt = 0
        /\ ~(IsAnswer(lastReq.met) /\ lastReq.met.status = 200)) =>
       (~classified /\ invoked = <<>>)

\* the chain runs on the 200 response to the basic-headers request of the
\* third attempt, after five requests without one
C5_Witness ==
  /\ pc = "chain"
  /\ lastReq.kind = "basic"
  /\ nreq = 6

\* C6: when the classifier judges the fetched page blocked, extract_price
\* returns None, no strategy is invoked and no further request is sent.
C6_BlockedAborts ==
  (classified /\ Blocked) =>
    /\ Returned
    /\ result = None
    /\ invoked = <<>>
    /\ nalt = 0
    /\ lastReq.kind \in {"session", "basic"}
    /\ lastReq.met = response

\* a short page with a block phrase was fetched and judged blocked
C6_Witness ==
  /\ classified
  /\ response.page = ShortPage
  /\ Returned

\* C7 as stated: the retry loop never sends more than maxAttempts requests
C7_AtMostMaxAttempts == nreq <= 3

\* C7: the retry loop makes at most 3 attempts; each attempt sends one request
\* and a second one when the first is answered 403, so a call sends at most
\* 3 + (number of 403 answers) <= 6 requests to the url.
C7_AtMostTwicePerAttempt ==
  /\ attempt <= 2
  /\ n403 <= attempt + 1
  /\ nreq <= attempt + 1 + n403
  /\ nreq <= 6
  /\ pc = "get403" => nreq = attempt + n403

\* three attempts answered 403, each followed by its second request
C7_Witness ==
  /\ nreq = 6
  /\ n403 = 3

(***************************************************************************)
(* Termination.  A running call takes its next step: every request ends    *)
(* (answered, or failed at the latest when its timeout expires) and every  *)
(* sleep is finite.                                                        *)
(***************************************************************************)
FairSpec == Spec /\ WF_vars(Fetch \/ Chain)

InLoop == pc \in {"loop", "get", "get403"}

\* every request so far carried its explicit timeout, and every sleep is short
TimeoutsExplicit ==
  /\ attempt <= 2
  /\ lastReq.kind \in {"session", "basic"} =>
       lastReq.timeout = << 20, 25, 30 >>[lastReq.attempt + 1]
  /\ lastReq.kind = "alternate" => lastReq.timeout = 15
  /\ Len(slept) <= 2
  /\ \A i \in 1..Len(slept) :
       \/ slept[i].why = "delay" /\ slept[i].max <= 3
       \/ slept[i].why \in {"backoff", "pause"} /\ slept[i].secs <= 6

\* C8: every extract_price call ends (returns or raises): the retry loop makes
\* at most 3 iterations, each with a larger attempt index, every request
\* carries an explicit timeout (20, 25, 30 s by attempt index in the loop, 15 s
\* for an alternate surface), every sleep is at most 6 s, and once the loop is
\* left the call never re-enters it.
C8_Terminates ==
  /\ []TimeoutsExplicit
  /\ [][(InLoop /\ pc' = "loop") => attempt' = attempt + 1]_vars
  /\ [][(~InLoop /\ pc # "idle") => ~InLoop']_vars
  /\ (pc = "loop") ~> (pc = "done")

\* a call ended after a request with the longest timeout and an alternate one
C8_Witness ==
  /\ pc = "done"
  /\ attempt = 2
  /\ timeout = 30
  /\ nalt = 2

(***************************************************************************)
(* Concurrency.  Flask serves /api/test-price, /api/track and              *)
(* /api/manual-check in threads and the scheduler runs check_prices in     *)
(* another, all on the module-level price_scraper (line 1241) and so on    *)
(* its one requests.Session.  A second extract_price call running beside   *)
(* the first is modelled by what it does to the shared session.            *)
(***************************************************************************)
ownVars == <<pc, callVars, loopVars, chainVars, endVars, calls, jobVars, unitVars>>

\* lines 276-286 in another thread, just before a request of this call goes
\* out: a retry of an extract_price(u) call there rotates the identity of the
\* shared session and sets the Referer of its own url.  (A rotation that
\* lands earlier in the iteration is overwritten by this call's own rotation,
\* or, in attempt 0, has the effect of one that lands here.)
OtherRotates ==
  /\ pc \in {"get", "get403"}
  /\ \E u \in Urls, random_ua \in 1..MaxUserAgent, random_headers \in 1..NumHeaderSets :
       sessionHeaders' = [ua |-> PoolUA(random_ua),
                          set |-> PoolSet(random_headers),
                          referer |-> _get_domain(u)]
  /\ UNCHANGED ownVars

ConcNext == Next \/ OtherRotates

ConcSpec == Init /\ [][ConcNext]_vars

\* C9 as stated: every session request of a call goes out with the session
\* headers as the call found them on entry or last set them itself: no other
\* call's rotation or Referer update changes them
C9_HeadersOwn ==
  [][(lastReq' # lastReq /\ lastReq'.kind = "session")
       => lastReq'.headers = ownHeaders]_vars

\* a request of a call for one site went out with the Referer of another site,
\* set by the other call's rotation
C9_ForeignReferer ==
  /\ lastReq.kind = "session"
  /\ lastReq.attempt = 0
  /\ lastReq.headers.referer # <<>>
  /\ lastReq.headers.referer # _get_domain(url)
  /\ ownHeaders = BaselineHeaders

(***************************************************************************)
(* check_prices (lines 1245-1288) on the price_alerts table                *)
(***************************************************************************)
\* a row of price_alerts, as add_price_alert inserts it
Row(u, target, active) ==
  [product_url |-> u, target_price |-> target, current_price |-> None,
   last_checked |-> "never", is_active |-> active]

\* the table when the run starts: the row number is the id
Alerts ==
  << Row(Url(<<"www", "myntra", "com">>, <<"p", "123">>), Price(999), TRUE),
     Row(Url(<<"m", "example", "org">>, <<"item", "7">>), Price(799), FALSE),
     Row(Url(<<"shop", "example", "com">>, <<"buy", "9">>), Price(500), TRUE) >>

\* DatabaseManager.get_all_active_alerts: the ids of the active rows, in order
RECURSIVE ActiveFrom(_, _)
ActiveFrom(t, i) ==
  IF i > Len(t) THEN << >>
  ELSE (IF t[i].is_active THEN << i >> ELSE << >>) \o ActiveFrom(t, i + 1)

get_all_active_alerts(t) == ActiveFrom(t, 1)

\* a variant of the UPDATE statement that leaves last_checked alone
update_price_only(t, id, price) == [t EXCEPT ![id].current_price = price]

\* a variant of the UPDATE statement that also clears is_active
update_and_deactivate(t, id, price) ==
  [t EXCEPT ![id].current_price = price, ![id].last_checked = "this run",
            ![id].is_active = FALSE]

\* DatabaseManager.update_price_info: the UPDATE statement
update_price_info(t, id, price) ==
  [t EXCEPT ![id].current_price = price, ![id].last_checked = "this run"]

CheckInit ==
  /\ NoCall
  /\ sessionHeaders = BaselineHeaders
  /\ calls = 0
  /\ cp = "idle"
  /\ table = Alerts
  /\ alerts = <<>>
  /\ idx = 0
  /\ seen = <<>>
  /\ notified = <<>>
  /\ arg = Unbound
  /\ ret = Unbound

callState == <<pc, callVars, loopVars, sessionHeaders, chainVars, endVars, calls>>

\* line 1252: the active alerts are read; on a database error the list is empty
CheckPricesStart ==
  /\ cp = "idle"
  /\ pc = "idle"
  /\ \E dbOk \in BOOLEAN :
       alerts' = IF dbOk THEN get_all_active_alerts(table) ELSE << >>
  /\ idx' = 0
  /\ cp' = "for"
  /\ UNCHANGED <<callState, table, seen, notified, unitVars>>

\* lines 1255-1260: the next alert; extract_price is called on its url
AlertExtract ==
  /\ cp = "for"
  /\ pc = "idle"
  /\ idx < Len(alerts)
  /\ idx' = idx + 1
  /\ Enter(table[alerts[idx + 1]].product_url, "check")
  /\ cp' = "extract"
  /\ UNCHANGED <<table, alerts, seen, notified, unitVars>>

\* what the run did for the alert id: how extract_price ended and with which
\* price, how the update went, how the notification went ("none": not
\* attempted), and whether a sleep followed the last request of the extraction
Seen(id, how, price, wrote, sent, rested) ==
  [id |-> id, how |-> how, price |-> price, wrote |-> wrote, sent |-> sent,
   rested |-> rested]

\* lines 1262-1281 and 1285-1286: a price was found; the update is attempted
\* (a database error is logged inside update_price_info), and the price is
\* compared; send_notification answers True or False, or raises into the
\* except clause of the alert
AlertFound ==
  /\ cp = "extract"
  /\ pc = "done" /\ caller = "check"
  /\ outcome = "returned" /\ result # None
  /\ LET id == alerts[idx]
         below == DecLE(result, table[id].target_price)
     IN  /\ \E dbOk \in BOOLEAN :
              \E sent \in IF below THEN {"sent", "failed", "raised"} ELSE {"none"} :
                /\ table' = IF dbOk THEN update_price_info(table, id, result) ELSE table
                /\ seen' = Append(seen, Seen(id, "found", result,
                                             IF dbOk THEN "ok" ELSE "failed",
                                             sent, slept # <<>>))
         /\ notified' = IF below THEN Append(notified, id) ELSE notified
  /\ Leave
  /\ cp' = "for"
  /\ UNCHANGED <<sessionHeaders, calls, alerts, idx, unitVars>>

\* lines 1282-1283: no price was found
AlertNotFound ==
  /\ cp = "extract"
  /\ pc = "done" /\ caller = "check"
  /\ outcome = "returned" /\ result = None
  /\ seen' = Append(seen, Seen(alerts[idx], "not found", None, "none", "none",
                               slept # <<>>))
  /\ Leave
  /\ cp' = "for"
  /\ UNCHANGED <<sessionHeaders, calls, table, alerts, idx, notified, unitVars>>

\* a variant in which the exception of extract_price ends the run
AlertRaisedFatal ==
  /\ cp = "extract"
  /\ pc = "done" /\ caller = "check"
  /\ outcome = "raised"
  /\ seen' = Append(seen, Seen(alerts[idx], "raised", None, "none", "none",
                               slept # <<>>))
  /\ Leave
  /\ cp' = "ended"
  /\ UNCHANGED <<sessionHeaders, calls, table, alerts, idx, notified, unitVars>>

\* lines 1285-1286: extract_price raised; the error is logged
AlertRaised ==
  /\ cp = "extract"
  /\ pc = "done" /\ caller = "check"
  /\ outcome = "raised"
  /\ seen' = Append(seen, Seen(alerts[idx], "raised", None, "none", "none",
                               slept # <<>>))
  /\ Leave
  /\ cp' = "for"
  /\ UNCHANGED <<sessionHeaders, calls, table, alerts, idx, notified, unitVars>>

\* line 1288: the loop is over
CheckPricesEnd ==
  /\ cp = "for"
  /\ pc = "idle"
  /\ idx = Len(alerts)
  /\ cp' = "ended"
  /\ UNCHANGED <<callState, table, alerts, idx, seen, notified, unitVars>>

CheckNext == CheckPricesStart \/ AlertExtract \/ Fetch \/ Chain \/ AlertFound
               \/ AlertNotFound \/ AlertRaised \/ CheckPricesEnd

CheckSpec == CheckInit /\ [][CheckNext]_vars

(***************************************************************************)
(* Properties of one check_prices run                                      *)
(***************************************************************************)
Processed == {seen[i].id : i \in 1..Len(seen)}
NotifiedIds == {notified[i] : i \in 1..Len(notified)}

\* the notification rule, for the entry e of seen
NotifiedIffAtOrBelowTarget(e) ==
  (e.id \in NotifiedIds) <=>
    (e.how = "found" /\ DecLE(e.price, Alerts[e.id].target_price))

\* C10 as stated: for every alert processed, a notification is attempted iff
\* a price was found and is <= the target, and the stored price and
\* last-checked time are updated iff a price was found
C10_UpdatedIffFound ==
  \A i \in 1..Len(seen) :
    /\ NotifiedIffAtOrBelowTarget(seen[i])
    /\ (/\ table[seen[i].id].last_checked = "this run"
        /\ table[seen[i].id].current_price = seen[i].price)
         <=> seen[i].how = "found"
    /\ seen[i].how # "found" => table[seen[i].id] = Alerts[seen[i].id]

\* C10: in one check_prices run every active alert is processed at most once
\* (all of them by the end of the run, when the alerts could be read); for each
\* a notification is attempted iff a price was found and is <= the target; the
\* update of the stored price and last-checked time is attempted iff a price
\* was found, and the row holds the found price and the time of the run when
\* the update succeeded and is unchanged otherwise; other rows are unchanged.
C10_UpdateAttemptedIffFound ==
  /\ \A i \in 1..Len(seen) :
       /\ Alerts[seen[i].id].is_active
       /\ NotifiedIffAtOrBelowTarget(seen[i])
       /\ seen[i].wrote # "none" <=> seen[i].how = "found"
       /\ seen[i].wrote = "ok" =>
            table[seen[i].id] = [Alerts[seen[i].id] EXCEPT
                                   !.current_price = seen[i].price,
                                   !.last_checked = "this run"]
       /\ seen[i].wrote # "ok" => table[seen[i].id] = Alerts[seen[i].id]
  /\ \A id \in 1..Len(table) : id \notin Processed => table[id] = Alerts[id]
  /\ Cardinality(Processed) = Len(seen)
  /\ Cardinality(NotifiedIds) = Len(notified)
  /\ (cp = "ended" /\ alerts # << >>) => Processed = {1, 3}

\* a run that notified for the first alert (999 <= 999), stored both found
\* prices, and did not notify for the other (799 > 500)
C10_Witness ==
  /\ cp = "ended"
  /\ notified = << 1 >>
  /\ table[1].current_price = Price(999)
  /\ table[1].last_checked = "this run"
  /\ table[3].current_price = Price(799)
  /\ table[3].last_checked = "this run"

(***************************************************************************)
(* The helpers of PriceScraper called on their own: a call is the pair of  *)
(* its arguments `arg` and, once it has returned, its value `ret`.         *)
(***************************************************************************)
\* no extract_price call and no check_prices run: only a helper is called
Standalone ==
  /\ NoCall
  /\ sessionHeaders = BaselineHeaders
  /\ calls = 0
  /\ cp = "idle"
  /\ table = <<>>
  /\ alerts = <<>>
  /\ idx = 0
  /\ seen = <<>>
  /\ notified = <<>>
  /\ ret = Unbound

Value(v) == [value |-> v]

\* the call returns v
Returns(v) ==
  /\ ret = Unbound
  /\ ret' = Value(v)
  /\ UNCHANGED <<pc, callVars, loopVars, sessionHeaders, chainVars, endVars, calls,
                 jobVars, arg>>

\* titles, lengths and texts of the pages the classifier is called on
Titles == SUBSET {"Site Maintenance", "sorry", "shoes"}
Lengths == {600, 999, 1000, 1999, 2000, 5000}
ErrorTexts == SUBSET {"OOPS", "blocked"}
ShopTexts == { {}, {"Price"}, {"Add to Cart", "price"}, {"discount", "offer"},
               {"add to cart", "price", "rupee sign"} }

ClassifierInit ==
  /\ Standalone
  /\ \E t \in Titles, l \in Lengths, e \in ErrorTexts, c \in ShopTexts :
       arg = [page_title |-> t, html_content |-> Page(t, l, e, c, <<>>)]

ClassifierCall ==
  Returns(_is_blocked_or_error_page(arg.html_content, arg.page_title))

ClassifierSpec == ClassifierInit /\ [][ClassifierCall]_vars

HasPhrase(text, phrases) == \E w \in text : \E phrase \in phrases : lower({w}) = {phrase}
TitleBlocks == HasPhrase(arg.page_title, error_indicators)
BodyBlocks == HasPhrase(arg.html_content.errs \cup arg.html_content.ecom, error_indicators)
ShopTokens ==
  Cardinality({token \in ecommerce_indicators :
                 HasPhrase(arg.html_content.errs \cup arg.html_content.ecom, {token})})

\* C11: the classifier returns true exactly when the lower-cased title holds a
\* block or error phrase (whatever the length of the body), or the body is
\* shorter than 1000 characters and its lower-cased text holds such a phrase,
\* or the body is shorter than 2000 characters and holds fewer than 2 of the
\* e-commerce tokens.  So a 600-character page titled "Site Maintenance" is
\* flagged, and a 5000-character page with "add to cart", "price" and a
\* currency symbol, under a title without such a phrase, is not.
C11_BlockedExactlyWhen ==
  ret # Unbound =>
    /\ ret.value = TRUE <=>
         \/ TitleBlocks
         \/ arg.html_content.len < 1000 /\ BodyBlocks
         \/ arg.html_content.len < 2000 /\ ShopTokens < 2
    /\ (arg.html_content.len = 600 /\ "Site Maintenance" \in arg.page_title)
         => ret.value = TRUE
    /\ ( /\ arg.html_content.len = 5000
         /\ arg.html_content.ecom = {"add to cart", "price", "rupee sign"}
         /\ ~TitleBlocks )
         => ret.value = FALSE

C11_Witness ==
  /\ ret = Value(TRUE)
  /\ arg.page_title = {"Site Maintenance"}
  /\ arg.html_content.len = 5000
  /\ arg.html_content.errs = {}
  /\ arg.html_content.ecom = {"add to cart", "price", "rupee sign"}

(***************************************************************************)
(* _parse_price on price texts in one clear format: a currency marker,     *)
(* white space or none, and a number in digit groups.  The sign of the     *)
(* rupee is the one-character text "rupee sign".                           *)
(***************************************************************************)
Markers == { <<>>, <<"rupee sign">>, <<"R", "s">>, <<"R", "s", ".">>,
             <<"I", "N", "R">>, <<"$">> }
Spaces == { <<>>, <<" ">> }
DigitGroups == { << <<"9", "9", "9">> >>,
                 << <<"1">>, <<"2", "3", "4">> >>,
                 << <<"1", "2">>, <<"3", "4", "5">> >>,
                 << <<"1">>, <<"2", "3", "4">>, <<"5", "6", "7">> >> }
Fractions == { <<"5", "6">>, <<"5">>, <<"0", "0">> }
Styles == {"1,234.56", "1.234,56", "1,234"}

RECURSIVE Join(_, _)
Join(groups, sep) ==
  IF Len(groups) = 1 THEN groups[1]
  ELSE groups[1] \o sep \o Join(Tail(groups), sep)

\* the text as the page writes it
Written(p) ==
  p.marker \o p.space \o
    CASE p.style = "1,234.56" -> Join(p.groups, <<",">>) \o <<".">> \o p.frac
      [] p.style = "1.234,56" -> Join(p.groups, <<".">>) \o <<",">> \o p.frac
      [] p.style = "1,234" -> Join(p.groups, <<",">>)

\* the number the text stands for
Meant(p) == Dec(DigitsToNat(Join(p.groups, <<>>) \o p.frac), Len(p.frac))

ParseInit ==
  /\ Standalone
  /\ \E m \in Markers, sp \in Spaces, g \in DigitGroups, f \in Fractions \cup {<<>>},
        st \in Styles :
       /\ st = "1,234" <=> f = <<>>
       /\ arg = [marker |-> m, space |-> sp, groups |-> g, frac |-> f, style |-> st]

ParseCall == Returns(_parse_price(Written(arg)))

ParseSpec == ParseInit /\ [][ParseCall]_vars

\* C12: for every text made of an optional currency marker (the rupee sign,
\* Rs, Rs., INR or $) and a number written as 1,234.56, as 1.234,56 or as
\* 1,234, _parse_price returns the value of that number.
C12_ParsesClearFormats == ret # Unbound => ret = Value(Meant(arg))

\* "Rs. 1,234" is parsed as 1.234
C12_RsDotMisparsed ==
  /\ arg.marker = <<"R", "s", ".">>
  /\ arg.space = <<" ">>
  /\ arg.groups = << <<"1">>, <<"2", "3", "4">> >>
  /\ arg.style = "1,234"
  /\ ret = Value(Dec(1234, 3))

\* without the marker "Rs." every text of the three formats is parsed right
ParsesWithoutRsDot ==
  (ret # Unbound /\ arg.marker # <<"R", "s", ".">>) => ret = Value(Meant(arg))

(***************************************************************************)
(* _select_best_price on lists of candidates                               *)
(***************************************************************************)
\* the longest list of candidates the selector is called on
MaxCandidates == 4

CandidatePrices == {Price(2), Price(10), Price(20), Price(30), Price(5000)}
CandidatePatterns == {regex_patterns[2], regex_patterns[7]}
Candidates == {Candidate(p, k) : p \in CandidatePrices, k \in CandidatePatterns}

SelectInit ==
  /\ Standalone
  /\ \E n \in 0..MaxCandidates : arg \in [1..n -> Candidates]

SelectCall == Returns(_select_best_price(arg))

SelectSpec == SelectInit /\ [][SelectCall]_vars

\* the values among the candidates of the call
Values == {arg[i].price : i \in 1..Len(arg)}
Below(v) == {w \in Values : w # v /\ DecLE(w, v)}
Above(v) == {w \in Values : w # v /\ DecLE(v, w)}

\* C13: the selector returns none for no candidate, the value of a single
\* candidate, the lower of two distinct values, the middle one of three
\* distinct values; duplicates count once (a list of equal values gives that
\* value); and the result is always one of the values given.
C13_SmallLists ==
  ret # Unbound =>
    /\ Len(arg) = 0 => ret = Value(None)
    /\ Len(arg) = 1 => ret = Value(arg[1].price)
    /\ Len(arg) > 0 => ret.value \in Values
    /\ Cardinality(Values) = 1 => Values = {ret.value}
    /\ Cardinality(Values) = 2 => Below(ret.value) = {}
    /\ Cardinality(Values) = 3 =>
         Cardinality(Below(ret.value)) = 1 /\ Cardinality(Above(ret.value)) = 1

C13_Witness ==
  /\ Len(arg) = 4
  /\ <<arg[1].price, arg[2].price, arg[3].price, arg[4].price>>
       = <<Price(30), Price(10), Price(30), Price(20)>>
  /\ ret = Value(Price(20))

\* the values of the call in ascending order, with their repetitions, each
\* under one and the same pattern
RECURSIVE Ascending(_)
Ascending(all_prices) ==
  IF Len(all_prices) = 0 THEN <<>>
  ELSE LET low == Min({all_prices[i].price : i \in 1..Len(all_prices)})
           at == CHOOSE i \in 1..Len(all_prices) : all_prices[i].price = low
           rest == [i \in 1..(Len(all_prices) - 1) |->
                      IF i < at THEN all_prices[i] ELSE all_prices[i + 1]]
       IN  <<Candidate(low, "Rs")>> \o Ascending(rest)

\* the distinct values of the call in ascending order, each under the pattern
\* of its first occurrence in the list
FirstPattern(v) ==
  LET first == CHOOSE i \in 1..Len(arg) :
                 arg[i].price = v /\ \A j \in 1..Len(arg) : arg[j].price = v => i <= j
  IN  arg[first].pattern

RECURSIVE DistinctAscending(_)
DistinctAscending(S) ==
  IF S = {} THEN <<>>
  ELSE LET low == Min(S)
       IN  <<Candidate(low, FirstPattern(low))>> \o DistinctAscending(S \ {low})

\* C14 as claimed: the selected value is a function of the multiset of values
\* alone: a list gives what the list of the same values in ascending order
\* under one pattern gives, whatever its order and its patterns.
C14_ValuesAlone == ret # Unbound => ret.value = _select_best_price(Ascending(arg))

\* C14: a list of at most three distinct values gives what any list of the
\* same values gives, whatever the order, the repetitions and the patterns
\* ({100, 500} gives 100 and {100, 300, 500} gives 300); a list of more
\* distinct values gives what any list gives that has the same values, each
\* with a first occurrence under a pattern of the same kind (naming a price
\* field or not).
C14_ValuesAndFirstPatterns ==
  /\ \A k1, k2, k3 \in CandidatePatterns :
       /\ _select_best_price(<<Candidate(Price(100), k1), Candidate(Price(500), k2)>>)
            = Price(100)
       /\ _select_best_price(<<Candidate(Price(500), k1), Candidate(Price(100), k2)>>)
            = Price(100)
       /\ _select_best_price(<<Candidate(Price(500), k1), Candidate(Price(100), k2),
                               Candidate(Price(300), k3)>>) = Price(300)
  /\ ret # Unbound =>
       /\ Cardinality(Values) <= 3 => ret.value = _select_best_price(Ascending(arg))
       /\ ret.value = _select_best_price(DistinctAscending(Values))

\* 2, 10, 20, 30 give 10 when 10 alone stands under a price field
C14_Witness ==
  /\ arg = <<Candidate(Price(30), "Rs"), Candidate(Price(10), "sellingPrice"),
             Candidate(Price(2), "Rs"), Candidate(Price(20), "Rs")>>
  /\ ret = Value(Price(10))
  /\ _select_best_price(Ascending(arg)) = Price(2)

\* the median of the values of the call: the middle one of an odd number of
\* values, the mean of the two middle ones of an even number
Median ==
  LET sorted == Sorted(Values)
      n == Len(sorted)
      a == sorted[n \div 2]
      b == sorted[(n \div 2) + 1]
  IN  IF n % 2 = 1 THEN b
      ELSE Dec((a.n * Pow10(b.k) + b.n * Pow10(a.k)) * 5, a.k + b.k + 1)

\* the element sorted(price_list)[len(price_list) // 2]
UpperMiddle == Sorted(Values)[(Cardinality(Values) \div 2) + 1]

\* the values within [0.1 * m, 10 * m], and those of them that first occur
\* under a pattern naming a price field
Survivors(m) == {v \in Values : Reasonable(v, m)}
PriceFieldSurvivors(m) == {v \in Survivors(m) : MentionsPrice(FirstPattern(v))}
LowestPreferred(m) ==
  IF PriceFieldSurvivors(m) # {} THEN Min(PriceFieldSurvivors(m)) ELSE Min(Survivors(m))

\* C20 as claimed: for more than three distinct values the selector takes the
\* median (25 for 10, 20, 30, 5000), drops the values outside
\* [0.1 * median, 10 * median] and returns the lowest survivor under a pattern
\* naming a price field, or else the lowest survivor; of 10, 20, 30, 5000 it
\* drops 5000 and returns one of 10, 20, 30.
C20_MedianFilter ==
  (ret # Unbound /\ Cardinality(Values) > 3) =>
    /\ ret.value = LowestPreferred(Median)
    /\ Values = {Price(10), Price(20), Price(30), Price(5000)} =>
         /\ Median = Dec(25, 0)
         /\ ret.value \in {Price(10), Price(20), Price(30)}

\* of 2, 10, 30, 5000 (median 20) the value 2 is dropped and 10 is returned
C20_UpperMiddleFilter ==
  /\ arg = <<Candidate(Price(2), "Rs"), Candidate(Price(10), "Rs"),
             Candidate(Price(30), "Rs"), Candidate(Price(5000), "Rs")>>
  /\ Median = Price(20)
  /\ LowestPreferred(Median) = Price(2)
  /\ ret = Value(Price(10))

\* with the upper one of the two middle values in the place of the median
\* the selection is as described
SelectsAroundUpperMiddle ==
  (ret # Unbound /\ Cardinality(Values) > 3) =>
    /\ ret.value = LowestPreferred(UpperMiddle)
    /\ Values = {Price(10), Price(20), Price(30), Price(5000)} =>
         /\ UpperMiddle = Price(30)
         /\ Survivors(UpperMiddle) = {Price(10), Price(20), Price(30)}

\* C15: a strategy that raises gives no candidate: the exception does not
\* leave extract_price, the chain goes on to the strategies that follow, in
\* their order, and returns the in-band value of a later one; without such a
\* value every strategy has been tried when the call returns none.
C15_FailureIsNoCandidate ==
  /\ \A name \in failures : \E i \in 1..Len(invoked) : invoked[i] = name
  /\ lastValue = Exc => (pc \in {"chain", "fallback"} /\ outcome = "running")
  /\ failures # {} =>
       /\ ~Raised
       /\ \E n \in 1..Len(strategies) : invoked = SubSeq(strategies, 1, n)
       /\ pc = "done" =>
            \/ result = lastValue /\ InBand(result)
            \/ result = None /\ invoked = strategies

\* the aggressive regex raised and the alternate surface gave the result
C15_Witness ==
  /\ Found
  /\ failures = {"Aggressive Regex"}
  /\ invoked[Len(invoked)] = "API Fallback"
  /\ result = Price(500)
  /\ nalt > 0

(***************************************************************************)
(* The identity of the requests of the retry loop                          *)
(***************************************************************************)
\* C16 as claimed: in every call, the first one on the PriceScraper or a
\* later one, the session request of attempt 0 goes out with the baseline
\* User-Agent and header set of __init__ and without a Referer; the session
\* request of a later attempt carries the Referer of the domain of the call's
\* own url.
C16_FirstAttemptBaseline ==
  lastReq.kind = "session" =>
    IF lastReq.attempt = 0
    THEN lastReq.headers = BaselineHeaders
    ELSE lastReq.headers.referer = _get_domain(url)

\* the second call's attempt 0 went out with a rotated identity and with the
\* Referer of the site of the first call
C16_StaleIdentity ==
  /\ calls = 2
  /\ lastReq.kind = "session"
  /\ lastReq.attempt = 0
  /\ lastReq.headers.ua # BaselineUA
  /\ lastReq.headers.set # BaselineSet
  /\ lastReq.headers.referer # <<>>
  /\ lastReq.headers.referer # _get_domain(url)

\* in the first call on a PriceScraper the requests are as described
FirstCallBaseline == calls = 1 => C16_FirstAttemptBaseline

\* the identity profile of a request: its User-Agent and its header set
Identity(hdrs) == <<hdrs.ua, hdrs.set>>

\* C17 as claimed: within one call the session request of an attempt after 0
\* goes out under an identity other than that of the attempt before it.
C17_ConsecutiveDiffer ==
  [][(/\ lastReq.kind = "session"
      /\ lastReq'.kind = "session"
      /\ lastReq'.attempt = lastReq.attempt + 1)
       => Identity(lastReq'.headers) # Identity(lastReq.headers)]_vars

\* the rotation of attempt 2 drew the User-Agent and the header set under
\* which the request of attempt 1 was sent
C17_SameIdentityAgain ==
  /\ pc = "get"
  /\ attempt = 2
  /\ lastReq.kind = "session"
  /\ lastReq.attempt = 1
  /\ Identity(sessionHeaders) = Identity(lastReq.headers)

\* a rotated identity is never the baseline one
RotationLeavesBaseline ==
  (lastReq.kind = "session" /\ lastReq.attempt > 0) =>
    /\ lastReq.headers.ua # BaselineUA
    /\ lastReq.headers.set # BaselineSet

(***************************************************************************)
(* Transient answers (429, 502, 503, 504) and the other statuses           *)
(***************************************************************************)
Transient == {429, 502, 503, 504}

\* extract_price calls made in one behaviour of the retry loop on its own
MaxFetches == 1

\* the calls of /api/test-price, up to MaxFetches of them, each taking its
\* next step
FetchNext == (TestPrice /\ calls < MaxFetches) \/ TestPriceAnswers \/ Fetch \/ Chain

FetchSpec == Init /\ [][FetchNext]_vars /\ WF_vars(Fetch \/ Chain)

\* the call has just waited the backoff of attempt i
BackedOff(i) == slept = <<Backoff((i + 1) * 2)>> /\ lastReq.attempt = i

\* the session request of attempt i has gone out
Requested(i) == lastReq.kind = "session" /\ lastReq.attempt = i

\* C18 as claimed: the backoff wait of every attempt is followed by another
\* request to the url.
C18_BackoffThenRetry ==
  \A i \in 0..(max_retries - 1) : BackedOff(i) ~> Requested(i + 1)

\* C18: a transient answer to the request of attempt i is followed by a wait
\* of (i + 1) * 2 seconds and by no request with basic headers for that
\* attempt; after the wait of attempt 0 or 1 the request of the next attempt
\* is sent; after the wait of attempt 2, the last one, no request is sent and
\* the call returns none.
C18_BackoffThenRetryOrEnd ==
  /\ [][(/\ lastReq' # lastReq
         /\ lastReq'.kind = "session"
         /\ IsAnswer(lastReq'.met)
         /\ lastReq'.met.status \in Transient)
          => /\ slept' = <<Backoff((lastReq'.attempt + 1) * 2)>>
             /\ n403' = n403
             /\ pc' = IF lastReq'.attempt < 2 THEN "loop" ELSE "after_loop"]_vars
  /\ [][BackedOff(2) =>
         \/ pc' = "idle"
         \/ lastReq' = lastReq /\ pc' = "done" /\ outcome' = "returned" /\ result' = None]_vars
  /\ \A i \in 0..1 : BackedOff(i) ~> Requested(i + 1)

\* three attempts were answered 503 or alike; after the third wait the call
\* returned none without a fourth request
C18_Witness ==
  /\ Returned
  /\ result = None
  /\ BackedOff(2)
  /\ lastReq.met.status \in Transient
  /\ nreq = 3
  /\ n403 = 0

\* the statuses without a branch of their own in the loop
OtherStatuses == StatusCodes \ ({200, 403} \cup Transient)

\* a request of the retry loop has just been answered with status s
Answered(kind, s) ==
  /\ lastReq' # lastReq
  /\ lastReq'.kind = kind
  /\ IsAnswer(lastReq'.met)
  /\ lastReq'.met.status = s

\* the attempt ends as a failure: the next attempt while attempts remain, an
\* error out of extract_price on the final attempt
HardFailure ==
  IF attempt < max_retries - 1
  THEN pc' = "loop" /\ attempt' = attempt + 1
  ELSE pc' = "done" /\ outcome' = "raised"

\* the attempt ends without an error: the next attempt while attempts remain,
\* the end of the loop on the final attempt
SoftFailure ==
  IF attempt < max_retries - 1
  THEN pc' = "loop" /\ attempt' = attempt + 1 /\ slept' = <<>>
  ELSE pc' = "after_loop" /\ outcome' = "running"

\* C19 as claimed: every answer with a status other than 200, 403, 429, 502,
\* 503, 504 is a hard failure of its attempt.
C19_OtherStatusHardFailure ==
  [][\A s \in OtherStatuses :
       (Answered("session", s) \/ Answered("basic", s)) => HardFailure]_vars

\* C19: an answer to the session request of an attempt with a status from 400
\* on, other than 403, 429, 502, 503, 504, is a hard failure: after a pause of
\* 2 seconds the next attempt, on the final attempt an error.  An answer with
\* a status below 400 other than 200 ends the attempt without error and
\* without pause, and so does an answer other than 200 to the request with
\* basic headers that follows a 403: the next attempt, or after the final
\* attempt the return of none.  Neither is followed by a request with basic
\* headers.
C19_OtherStatusByRange ==
  /\ [][\A s \in OtherStatuses :
          /\ Answered("session", s) =>
               /\ IF s >= 400
                  THEN HardFailure /\ (pc' = "loop" => slept' = <<Pause>>)
                  ELSE SoftFailure
               /\ n403' = n403
          /\ Answered("basic", s) => SoftFailure]_vars
  /\ [](( /\ pc = "done"
          /\ lastReq.kind \in {"session", "basic"}
          /\ IsAnswer(lastReq.met)
          /\ lastReq.met.status \in OtherStatuses )
         => IF lastReq.kind = "session" /\ lastReq.met.status >= 400
            THEN Raised
            ELSE Returned /\ result = None)

\* the third attempt was answered 304 and the call returned none
C19_Witness ==
  /\ Returned
  /\ result = None
  /\ lastReq.kind = "session"
  /\ lastReq.attempt = 2
  /\ lastReq.met.status = 304
  /\ nreq = 3

(***************************************************************************)
(* _parse_price on cleaned texts: digits, dots and commas                  *)
(***************************************************************************)
\* the longest cleaned text _parse_price is called on
MaxText == 6

CleanedChars == {"0", "1", "5", ".", ","}

SeparatorInit ==
  /\ Standalone
  /\ \E n \in 1..MaxText : arg \in [1..n -> CleanedChars]

SeparatorCall == Returns(_parse_price(arg))

SeparatorSpec == SeparatorInit /\ [][SeparatorCall]_vars

IsDigit(c) == c \in Digits

\* the number written by the digits of arg with the decimal point at the one
\* occurrence of `point` (none when `point` occurs more than once or arg has
\* no digit), kept when it lies in [0.01, 10000000]
ReadWithPoint(point) ==
  IF CountChar(arg, point) > 1 \/ ~(\E i \in 1..Len(arg) : IsDigit(arg[i]))
  THEN None
  ELSE LET at == RFind(arg, point)
           after == Cardinality({i \in (at + 1)..Len(arg) : IsDigit(arg[i])})
           number == Dec(DigitsToNat(SelectSeq(arg, IsDigit)), after)
       IN  IF AtLeastCent(number) /\ DecLEInt(number, 10000000) THEN number ELSE None

\* the number written by the digits of arg alone
ReadWhole ==
  IF ~(\E i \in 1..Len(arg) : IsDigit(arg[i])) THEN None
  ELSE LET number == Dec(DigitsToNat(SelectSeq(arg, IsDigit)), 0)
       IN  IF AtLeastCent(number) /\ DecLEInt(number, 10000000) THEN number ELSE None

\* C26: on a cleaned text with both '.' and ',' the separator that occurs
\* last is the decimal separator and every occurrence of the other one is
\* dropped; 1,234.56 and 1.234,56 both give 1234.56.
C26_LastSeparatorIsDecimal ==
  /\ _parse_price(<<"1", ",", "2", "3", "4", ".", "5", "6">>) = Dec(123456, 2)
  /\ _parse_price(<<"1", ".", "2", "3", "4", ",", "5", "6">>) = Dec(123456, 2)
  /\ (ret # Unbound /\ HasChar(arg, ".") /\ HasChar(arg, ",")) =>
       ret = Value(ReadWithPoint(IF RFind(arg, ".") > RFind(arg, ",") THEN "." ELSE ","))

\* 1.5,15 is read as 15.15
C26_Witness ==
  /\ arg = <<"1", ".", "5", ",", "1", "5">>
  /\ ret = Value(Dec(1515, 2))

\* C27: on a cleaned text with ',' and without '.' the comma is the decimal
\* separator exactly when there is one comma and 1 or 2 digits follow it;
\* otherwise every comma is dropped as a thousands separator (1,56 gives
\* 1.56, 1,234 gives 1234, 12,34,567 gives 1234567).
C27_CommaAlone ==
  /\ _parse_price(<<"1", ",", "5", "6">>) = Dec(156, 2)
  /\ _parse_price(<<"1", ",", "2", "3", "4">>) = Price(1234)
  /\ _parse_price(<<"1", "2", ",", "3", "4", ",", "5", "6", "7">>) = Price(1234567)
  /\ (ret # Unbound /\ HasChar(arg, ",") /\ ~HasChar(arg, ".")) =>
       ret = Value(IF /\ CountChar(arg, ",") = 1
                      /\ Len(arg) - RFind(arg, ",") \in {1, 2}
                   THEN ReadWithPoint(",")
                   ELSE ReadWhole)

\* 15,5 is read as 15.5
C27_Witness ==
  /\ arg = <<"1", "5", ",", "5">>
  /\ ret = Value(Dec(155, 1))

\* ---------------------------------------------------------------------
\* _extract_aggressive_regex: the patterns in list order, each named by
\* the text it looks for; the pattern of index i is patterns[i + 1]
patterns == <<"rupee sign", "Rs", "INR", "rupee sign digits",
              "price", "sellingPrice", "currentPrice", "salePrice",
              "finalPrice", "discountedPrice", "listPrice", "mrp",
              "price =", "currentPrice =", "sellingPrice =", "productPrice =",
              "data-price", "data-selling-price", "data-current-price",
              "only", "was", "save", "followed", "indian", "emergency">>

\* price and 10 <= price <= 100000
Plausible(price) ==
  /\ price # None
  /\ IntLEDec(10, price)
  /\ DecLEInt(price, 100000)

RECURSIVE pattern_prices(_, _)
\* the items appended for the matches of pattern i, in document order
pattern_prices(matches, i) ==
  IF Len(matches) = 0 THEN <<>>
  ELSE LET price == _parse_price(Head(matches))
       IN  (IF Plausible(price)
            THEN <<[price |-> price, pattern_index |-> i,
                    pattern |-> patterns[i + 1]]>>
            ELSE <<>>) \o pattern_prices(Tail(matches), i)

RECURSIVE all_prices_from(_, _)
\* all_prices after the loop has run over the patterns i, i + 1, ...;
\* found[i] is what re.findall gives for pattern i
all_prices_from(found, i) ==
  IF i >= Len(patterns) THEN <<>>
  ELSE (IF i \in DOMAIN found THEN pattern_prices(found[i], i) ELSE <<>>)
       \o all_prices_from(found, i + 1)

\* a variant that returns the lowest value of all
aggressive_lowest_value(found) ==
  LET all_prices == all_prices_from(found, 0)
  IN  IF Len(all_prices) = 0 THEN None
      ELSE Min({all_prices[j].price : j \in 1..Len(all_prices)})

\* the sort by (pattern_index, price) and its first item
_extract_aggressive_regex(found) ==
  LET all_prices == all_prices_from(found, 0)
      Key(a, b) == \/ a.pattern_index < b.pattern_index
                   \/ /\ a.pattern_index = b.pattern_index
                      /\ DecLE(a.price, b.price)
  IN  IF Len(all_prices) = 0 THEN None
      ELSE all_prices[CHOOSE j \in 1..Len(all_prices) :
                        /\ \A m \in 1..Len(all_prices) :
                             Key(all_prices[j], all_prices[m])
                        /\ \A m \in 1..(j - 1) :
                             ~Key(all_prices[m], all_prices[j])].price

MaxMatches == 2
PatternIndexes == {0, 4}
RawMatches == {<<"5">>, <<"1", "0">>, <<"5", "0", "0">>,
               <<"1", ",", "4", "9", "9">>,
               <<"1", "0", "0", ",", "0", "0", "0">>,
               <<"2", "5", "0", "0", "0", "0">>}
MatchLists == UNION {[1..n -> RawMatches] : n \in 0..MaxMatches}

AggressiveInit ==
  /\ Standalone
  /\ arg \in [PatternIndexes -> MatchLists]

AggressiveCall == Returns(_extract_aggressive_regex(arg))

AggressiveSpec == AggressiveInit /\ [][AggressiveCall]_vars

\* the in-band values among the matches of pattern i
InBandOf(i) ==
  {p \in {_parse_price(arg[i][j]) : j \in 1..Len(arg[i])} : Plausible(p)}

Matching == {i \in PatternIndexes : InBandOf(i) # {}}

\* C22: the aggressive regex returns the smallest in-band value matched by
\* the lowest-indexed pattern that has an in-band match, and none exactly
\* when no pattern has one
C22_LowestOfFirstPattern ==
  ret # Unbound =>
    /\ (ret = Value(None)) <=> (Matching = {})
    /\ Matching # {} =>
         LET i == CHOOSE m \in Matching : \A n \in Matching : m <= n
         IN  ret = Value(Min(InBandOf(i)))

\* the first pattern matches 5 and 1,499, the "price" key 10 and 500
C22_Witness ==
  /\ arg = [i \in PatternIndexes |->
              IF i = 0 THEN <<(<<"5">>), (<<"1", ",", "4", "9", "9">>)>>
              ELSE <<(<<"1", "0">>), (<<"5", "0", "0">>)>>]
  /\ ret = Value(Price(1499))

\* the in-band matches of the call as the selector would be given them
Collected == all_prices_from(arg, 0)
AsCandidates ==
  [j \in 1..Len(Collected) |->
     Candidate(Collected[j].price, Collected[j].pattern)]

\* C21 as stated: with several in-band matches the aggressive regex
\* returns what _select_best_price selects from them
C21_SelectorDecides ==
  (ret # Unbound /\ Len(Collected) >= 2) =>
    ret = Value(_select_best_price(AsCandidates))

\* C21: with several in-band matches the aggressive regex returns the
\* lowest value among the matches of the pattern that comes first in the
\* collected list, whatever the selector would select from the list
C21_PriorityDecides ==
  (ret # Unbound /\ Len(Collected) >= 2) =>
    ret = Value(Min({Collected[j].price :
                       j \in {m \in 1..Len(Collected) :
                                Collected[m].pattern_index
                                  = Collected[1].pattern_index}}))

\* 1,499 and 100,000 after the rupee sign, 10 and 500 under the "price"
\* key: the selector drops 10 and 100,000 and prefers the "price" key
C21_Witness ==
  /\ arg = [i \in PatternIndexes |->
              IF i = 0 THEN <<(<<"1", ",", "4", "9", "9">>),
                              (<<"1", "0", "0", ",", "0", "0", "0">>)>>
              ELSE <<(<<"1", "0">>), (<<"5", "0", "0">>)>>]
  /\ ret = Value(Price(1499))
  /\ _select_best_price(AsCandidates) = Price(500)

\* ---------------------------------------------------------------------
\* _extract_context_aware_generic: the selectors with their weights
price_contexts ==
  <<[selector |-> "[data-testid*=price]", weight |-> 10],
    [selector |-> "[class*=selling-price]", weight |-> 9],
    [selector |-> "[class*=current-price]", weight |-> 9],
    [selector |-> "[class*=product-price]", weight |-> 8],
    [selector |-> "[itemprop=price]", weight |-> 8],
    [selector |-> ".price", weight |-> 6],
    [selector |-> "[class*=price]", weight |-> 5]>>

\* elements[:5]
FirstFive(elements) == SubSeq(elements, 1, IF Len(elements) < 5 THEN Len(elements) ELSE 5)

\* an element is its text and the names of the elements around it
Boosted(element) == element.parents \cap {"main", "article", "section"} # {}

RECURSIVE context_candidates(_, _)
\* the candidates appended for the elements of one selector
context_candidates(elements, weight) ==
  IF Len(elements) = 0 THEN <<>>
  ELSE LET element == Head(elements)
           price == _parse_price(element.text)
       IN  (IF Plausible(price)
            THEN <<[price |-> price,
                    score |-> IF Boosted(element) THEN weight + 2 ELSE weight]>>
            ELSE <<>>) \o context_candidates(Tail(elements), weight)

RECURSIVE candidates_from(_, _)
\* candidates after the loop has run over the selectors c, c + 1, ...;
\* found[c] is what soup.select gives for price_contexts[c]
candidates_from(found, c) ==
  IF c > Len(price_contexts) THEN <<>>
  ELSE (IF c \in DOMAIN found
        THEN context_candidates(FirstFive(found[c]), price_contexts[c].weight)
        ELSE <<>>) \o candidates_from(found, c + 1)

\* max(candidates, key = score): the first candidate of the highest score
FirstBest(candidates) ==
  candidates[CHOOSE j \in 1..Len(candidates) :
               /\ \A m \in 1..Len(candidates) :
                    candidates[m].score <= candidates[j].score
               /\ \A m \in 1..(j - 1) :
                    candidates[m].score < candidates[j].score]

\* a variant that returns the price of the first candidate
context_aware_first(found) ==
  LET candidates == candidates_from(found, 1)
  IN  IF Len(candidates) = 0 THEN None ELSE candidates[1].price

_extract_context_aware_generic(found) ==
  LET candidates == candidates_from(found, 1)
  IN  IF Len(candidates) = 0 THEN None ELSE FirstBest(candidates).price

MaxPerSelector == 2
MaxElements == 6
ContextIndexes == {1, 2, 4}
Element(text, parents) == [text |-> text, parents |-> parents]
Elements ==
  {Element(<<"5">>, {"section", "body", "html"}),
   Element(<<"5", "0", "0">>, {"span", "main", "body", "html"}),
   Element(<<"1", ",", "4", "9", "9">>, {"div", "body", "html"})}
ManyElements ==
  {Element(<<"5">>, {"div", "body", "html"}),
   Element(<<"5", "0", "0">>, {"div", "body", "html"}),
   Element(<<"1", ",", "4", "9", "9">>, {"div", "body", "html"})}

\* a few elements under three selectors, or many under the selector .price
ContextInit ==
  /\ Standalone
  /\ \/ arg \in [ContextIndexes ->
                   UNION {[1..n -> Elements] : n \in 0..MaxPerSelector}]
     \/ arg \in [{6} -> [1..MaxElements -> ManyElements]]

ContextCall == Returns(_extract_context_aware_generic(arg))

ContextSpec == ContextInit /\ [][ContextCall]_vars

\* the places <<selector, position>> of the elements of the call with an
\* in-band price, among the first `most` elements of each selector
Scored(most) ==
  {p \in (DOMAIN arg) \X (1..most) :
     /\ p[2] <= Len(arg[p[1]])
     /\ Plausible(_parse_price(arg[p[1]][p[2]].text))}

ScoreAt(p) ==
  price_contexts[p[1]].weight + (IF Boosted(arg[p[1]][p[2]]) THEN 2 ELSE 0)

\* selector list order, then document order
Encountered(p, q) == p[1] < q[1] \/ (p[1] = q[1] /\ p[2] <= q[2])

HighestFirst(most) ==
  CHOOSE p \in Scored(most) :
    \A q \in Scored(most) :
      \/ ScoreAt(q) < ScoreAt(p)
      \/ ScoreAt(q) = ScoreAt(p) /\ Encountered(p, q)

ReturnsHighestFirst(most) ==
  ret # Unbound =>
    IF Scored(most) = {} THEN ret = Value(None)
    ELSE LET p == HighestFirst(most)
         IN  ret = Value(_parse_price(arg[p[1]][p[2]].text))

\* C23 as stated: every matching element with an in-band price is scored
\* by weight plus 2 under main, article or section, and the price of the
\* highest score is returned, the first encountered on a tie
C23_EveryElementScored == ReturnsHighestFirst(MaxElements + 1)

\* C23: the same over the first five elements that each selector matches;
\* none is returned when none of these has an in-band price
C23_FirstFiveScored == ReturnsHighestFirst(5)

\* weight 10 without the bonus and weight 8 with it tie at 10, and the
\* element met first gives the price
C23_Witness ==
  /\ arg = [c \in ContextIndexes |->
              IF c = 1 THEN <<Element(<<"1", ",", "4", "9", "9">>,
                                      {"div", "body", "html"})>>
              ELSE IF c = 4 THEN <<Element(<<"5", "0", "0">>,
                                           {"span", "main", "body", "html"})>>
              ELSE <<>>]
  /\ ret = Value(Price(1499))

\* the sixth element of a selector is the only one with an in-band price
SixthElementIgnored ==
  /\ DOMAIN arg = {6}
  /\ \A j \in 1..5 : arg[6][j].text = <<"5">>
  /\ arg[6][6].text = <<"5", "0", "0">>
  /\ ret = Value(None)

\* ---------------------------------------------------------------------
\* _extract_site_specific_price.  The page is given by what soup.select
\* gives for the selectors of each key of site_selectors, in list order:
\* the texts of the matched elements in document order, or Exc when the
\* selector fails.

\* lines 483-489: the first key of the table that the domain contains
FirstKey(domain) ==
  IF HasSiteSelectors(domain)
  THEN CHOOSE i \in 1..Len(site_keys) :
         /\ ContainsSeq(domain, site_keys[i])
         /\ \A j \in 1..(i - 1) : ~ContainsSeq(domain, site_keys[j])
  ELSE 0

RECURSIVE first_price(_)
\* lines 497-504: the first element whose text parses to a price above 0
first_price(texts) ==
  IF Len(texts) = 0 THEN None
  ELSE LET price == _parse_price(Head(texts))
       IN  IF price # None /\ price.n > 0 THEN price
           ELSE first_price(Tail(texts))

RECURSIVE try_selectors(_)
\* lines 492-509
try_selectors(selected) ==
  IF Len(selected) = 0 THEN None
  ELSE IF Head(selected) = [failed |-> TRUE] THEN try_selectors(Tail(selected))
  ELSE LET price == first_price(Head(selected).texts)
       IN  IF price # None THEN price ELSE try_selectors(Tail(selected))

_extract_site_specific_price(soup, domain) ==
  IF FirstKey(domain) = 0 THEN None
  ELSE try_selectors(soup[FirstKey(domain)])

MaxSelectors == 2
Texts(t) == [texts |-> t]
SelectorGives ==
  {[failed |-> TRUE],
   Texts(<<(<<"-">>)>>),
   Texts(<<(<<"4", "9", "9">>)>>),
   Texts(<<(<<"-">>), (<<"1", ",", "4", "9", "9">>)>>),
   Texts(<<(<<"1", ",", "4", "9", "9">>), (<<"4", "9", "9">>)>>)}
Hosts == {<<"www", "amazon", "com">>, <<"m", "amazon", "in">>,
          <<"amazon", "com", "au">>, <<"smile", "amazon", "in">>,
          <<"www", "myamazon", "com">>, <<"amazon", "international">>,
          <<"shop", "example", "com">>}

\* the selectors of amazon.com give anything, those of amazon.in one price
\* or nothing, those of the other keys nothing
SiteInit ==
  /\ Standalone
  /\ \E host \in Hosts, n \in 0..MaxSelectors :
       \E first \in [1..n -> SelectorGives],
          second \in {<<>>, <<Texts(<<(<<"2", ",", "9", "9", "9">>)>>)>>} :
         arg = [host |-> host,
                soup |-> [k \in 1..Len(site_keys) |->
                            IF k = 1 THEN first
                            ELSE IF k = 2 THEN second ELSE <<>>]]

SiteCall ==
  Returns(_extract_site_specific_price(arg.soup, _get_domain(Url(arg.host, <<>>))))

SiteSpec == SiteInit /\ [][SiteCall]_vars

\* the price the selectors of key k give: that of the first element, in
\* selector order and then document order, whose text parses to a price
\* (a failing selector gives no element)
GivenBy(k) ==
  LET at == {p \in (1..Len(arg.soup[k])) \X (1..2) :
               /\ arg.soup[k][p[1]] # [failed |-> TRUE]
               /\ p[2] <= Len(arg.soup[k][p[1]].texts)
               /\ _parse_price(arg.soup[k][p[1]].texts[p[2]]) # None}
  IN  IF at = {} THEN None
      ELSE LET p == CHOOSE q \in at : \A r \in at : Encountered(q, r)
           IN  _parse_price(arg.soup[k][p[1]].texts[p[2]])

Stripped == _get_domain(Url(arg.host, <<>>))

\* C24 as stated: a key's selectors are applied exactly when the stripped
\* domain is the key, and every other domain gives no candidate
C24_DomainIsKey ==
  ret # Unbound =>
    IF \E k \in 1..Len(site_keys) : Stripped = site_keys[k]
    THEN \E k \in 1..Len(site_keys) :
           Stripped = site_keys[k] /\ ret = Value(GivenBy(k))
    ELSE ret = Value(None)

\* the selectors applied are those of the first key of the table that
\* occurs within the stripped domain, and a domain within which no key
\* occurs gives no candidate
AppliesFirstContainedKey ==
  ret # Unbound =>
    IF \E k \in 1..Len(site_keys) : ContainsSeq(Stripped, site_keys[k])
    THEN \E k \in 1..Len(site_keys) :
           /\ ContainsSeq(Stripped, site_keys[k])
           /\ \A j \in 1..(k - 1) : ~ContainsSeq(Stripped, site_keys[j])
           /\ ret = Value(GivenBy(k))
    ELSE ret = Value(None)

\* on amazon.com.au the selectors of amazon.com give the price
C24_ForeignDomain ==
  /\ arg.host = <<"amazon", "com", "au">>
  /\ arg.soup[1] = <<Texts(<<(<<"-">>)>>),
                     Texts(<<(<<"1", ",", "4", "9", "9">>), (<<"4", "9", "9">>)>>)>>
  /\ ret = Value(Price(1499))

(***************************************************************************)
(* The alternate surfaces                                                  *)
(***************************************************************************)
\* the domains for which _try_api_fallback builds a mobile url
KnownDomain ==
  \/ ContainsSeq(_get_domain(url), <<"myntra", "com">>)
  \/ ContainsSeq(_get_domain(url), <<"amazon", "in">>)

\* the strategy went through all its alternate urls and found nothing
FallbackExhausted == pc = "done" /\ invoked = strategies /\ lastValue = None

\* the strategy gave the value of the call's last strategy
FallbackGave == pc = "done" /\ invoked = strategies /\ lastValue \notin {None, Exc}

FailedAt(e) ==
  e.how = "raised" \/ e.wrote = "failed" \/ e.sent \in {"failed", "raised"}

\* C29: a failure while one alert is processed (extract_price raises, the
\* update fails, the notification fails or raises) does not end the run:
\* the alerts are processed in the order read, one entry each, the run
\* ends only when every alert read has been processed, and it ends by
\* returning
C29_FailureNotFatal ==
  /\ Len(seen) <= Len(alerts)
  /\ \A i \in 1..Len(seen) : seen[i].id = alerts[i]
  /\ cp \in {"idle", "for", "extract", "ended"}
  /\ cp = "for" => Len(seen) = idx
  /\ cp = "ended" => Len(seen) = Len(alerts)

\* extract_price raised for the first alert, and the second was processed:
\* its update failed and its notification raised
C29_Witness ==
  /\ cp = "ended"
  /\ Len(seen) = 2
  /\ seen[1].how = "raised"
  /\ seen[2].wrote = "failed"
  /\ seen[2].sent = "raised"
  /\ FailedAt(seen[1]) /\ FailedAt(seen[2])

(***************************************************************************)
(* The spacing of the requests of a check_prices run                       *)
(***************************************************************************)
\* a table with two active alerts on one domain
SameDomainAlerts ==
  << Row(Url(<<"shop", "example", "com">>, <<"buy", "9">>), Price(500), TRUE),
     Row(Url(<<"www", "shop", "example", "com">>, <<"buy", "7">>), Price(799), TRUE) >>

SpacingInit ==
  /\ NoCall
  /\ sessionHeaders = BaselineHeaders
  /\ calls = 0
  /\ cp = "idle"
  /\ table = SameDomainAlerts
  /\ alerts = <<>>
  /\ idx = 0
  /\ seen = <<>>
  /\ notified = <<>>
  /\ arg = Unbound
  /\ ret = Unbound

SpacingSpec == SpacingInit /\ [][CheckNext]_vars

\* the alert before the one being processed has the domain of this one
SharesDomainWithLast ==
  /\ cp = "extract"
  /\ idx > 1
  /\ _get_domain(table[alerts[idx - 1]].product_url) = _get_domain(url)

\* C28 as stated: when two alerts of a run share a domain, a delay lies
\* between the last request of the first alert's extraction and the first
\* request of the next: a sleep after that last request, or one in the new
\* call before its first request
C28_DelayBetweenAlerts ==
  [][(SharesDomainWithLast /\ nreq = 0 /\ nreq' = 1)
       => (seen[idx - 1].rested \/ slept # <<>>)]_vars

\* the first request for the second alert has gone out, with no sleep in
\* its call, after the extraction for the first alert found a price
C28_NoDelay ==
  /\ SharesDomainWithLast
  /\ nreq = 1
  /\ lastReq.attempt = 0
  /\ seen[idx - 1].how = "found"
  /\ ~seen[idx - 1].rested

\* a sleep follows the last request of an extraction only when that request
\* was answered 429, 502, 503 or 504 on the last attempt
RestsOnlyAfterBackoff ==
  \A i \in 1..Len(seen) : seen[i].rested => seen[i].how = "not found"

(***************************************************************************)
(* Alerts over several operations: track_product adds alerts, check_prices *)
(* runs again and again.                                                   *)
(***************************************************************************)
MaxAlerts == 1
MaxJobCalls == 3
TrackUrls == {Url(<<"shop", "example", "com">>, <<"buy", "9">>)}
TrackTargets == {Price(0), Price(799)}

JobInit ==
  /\ NoCall
  /\ sessionHeaders = BaselineHeaders
  /\ calls = 0
  /\ cp = "idle"
  /\ table = <<>>
  /\ alerts = <<>>
  /\ idx = 0
  /\ seen = <<>>
  /\ notified = <<>>
  /\ arg = Unbound
  /\ ret = Unbound

\* track_product up to its extract_price call: a target that is not above 0
\* is answered 400 and a failed insert 500, and both leave everything as it
\* was; otherwise add_price_alert inserts the row (is_active takes its
\* default) and extract_price is called
TrackProduct ==
  /\ cp = "idle"
  /\ pc = "idle"
  /\ Len(table) < MaxAlerts
  /\ calls < MaxJobCalls
  /\ \E u \in TrackUrls, target \in TrackTargets :
       /\ target.n > 0
       /\ table' = Append(table, Row(u, target, TRUE))
       /\ Enter(u, "track")
  /\ cp' = "track"
  /\ UNCHANGED <<alerts, idx, seen, notified, unitVars>>

\* track_product after extract_price: with a price the row is updated and,
\* when the price is at or below the target, the immediate notification is
\* attempted; an exception is logged; the request is answered
TrackAnswers ==
  /\ cp = "track"
  /\ pc = "done" /\ caller = "track"
  /\ LET id == Len(table)
     IN  IF outcome = "returned" /\ result # None
         THEN /\ \E dbOk \in BOOLEAN :
                   table' = IF dbOk THEN update_price_info(table, id, result)
                            ELSE table
              /\ notified' = IF DecLE(result, table[id].target_price)
                             THEN Append(notified, id) ELSE notified
         ELSE UNCHANGED <<table, notified>>
  /\ Leave
  /\ cp' = "idle"
  /\ UNCHANGED <<sessionHeaders, calls, alerts, idx, seen, unitVars>>

\* the scheduler's job, or /api/manual-check, starts a run
ScheduledCheck == calls < MaxJobCalls /\ CheckPricesStart

\* check_prices has returned: its locals are gone
CheckPricesReturn ==
  /\ cp = "ended"
  /\ cp' = "idle"
  /\ alerts' = <<>>
  /\ idx' = 0
  /\ seen' = <<>>
  /\ UNCHANGED <<callState, table, notified, unitVars>>

JobNext == TrackProduct \/ TrackAnswers \/ ScheduledCheck \/ AlertExtract
             \/ Fetch \/ Chain \/ AlertFound \/ AlertNotFound \/ AlertRaised
             \/ CheckPricesEnd \/ CheckPricesReturn

JobSpec == JobInit /\ [][JobNext]_vars

\* the step of check_prices that ends the processing of an alert whose
\* extracted price is at or below its target
FoundAtOrBelowTarget ==
  /\ cp = "extract" /\ cp' = "for"
  /\ Found
  /\ DecLE(result, table[alerts[idx]].target_price)

\* C30: no operation deactivates or removes an alert or changes its url or
\* target, every row is active, a run that reads the alerts reads all of
\* them, and every run in which the extracted price of an alert is at or
\* below its target attempts a notification, whatever was notified before
C30_AlertsStayActive ==
  /\ [](/\ \A id \in 1..Len(table) : table[id].is_active
        /\ (cp \in {"for", "extract"} /\ alerts # <<>>) =>
              alerts = [i \in 1..Len(table) |-> i])
  /\ [][/\ Len(table') >= Len(table)
        /\ \A id \in 1..Len(table) :
             /\ table'[id].is_active
             /\ table'[id].product_url = table[id].product_url
             /\ table'[id].target_price = table[id].target_price
        /\ Len(notified') >= Len(notified)
        /\ FoundAtOrBelowTarget => notified' = Append(notified, alerts[idx])]_vars

\* the alert was notified at once by track_product and again by each of the
\* two runs that followed
C30_Witness ==
  /\ cp = "ended"
  /\ notified = <<1, 1, 1>>
  /\ table[1].is_active
  /\ seen[1].how = "found"

=============================================================================
